---- MODULE Spec2Model ----
(***************************************************************************)
(* Verification model of the APITools gateway: the per-route quota check   *)
(* (server/handlers/openai.js, server/handlers/claude.js), the chat        *)
(* handlers' admission prefix, and the Codex / Kiro credential stores.     *)
(***************************************************************************)
EXTENDS Integers, Sequences, FiniteSets, TLC

(***************************************************************************)
(* Bounds of the model.                                                    *)
(***************************************************************************)
\* clock resolution: ticks per calendar day
TicksPerDay == 2
\* quota checks performed in one behaviour
MaxChecks == 3
\* chat requests received in one behaviour
MaxReqs == 1

(***************************************************************************)
(* JavaScript null / undefined.  Every comparison against a number is      *)
(* guarded by a test for Null first, as in the source.                     *)
(***************************************************************************)
Null == 0 - 1000

Min(a, b) == IF a <= b THEN a ELSE b

(***************************************************************************)
(* Calendar.  Day 1 is Monday 1 January; months are 0-based as in JS.      *)
(* A timestamp is a tick count; day d starts at tick d * TicksPerDay.      *)
(***************************************************************************)
MonthFirstDay == <<1, 32, 61, 92>>

DayOf(t) == t \div TicksPerDay

\* Date.prototype.getDay(): 0 = Sunday, 1 = Monday, ...
DateGetDay(t) == DayOf(t) % 7

\* Date.prototype.getMonth()
DateGetMonth(t) ==
  CHOOSE m \in 0..2 : MonthFirstDay[m + 1] <= DayOf(t) /\ DayOf(t) < MonthFirstDay[m + 2]

\* Date.prototype.getDate(): day of the month, 1-based
DateGetDate(t) == DayOf(t) - MonthFirstDay[DateGetMonth(t) + 1] + 1

\* new Date(year, month, date).getTime(): local midnight; an out-of-range
\* date rolls into the neighbouring month
DateTs(month, date) == (MonthFirstDay[month + 1] + date - 1) * TicksPerDay

\* the days and the instants at which the clock is read
\* (Monday noon, Tuesday, Sunday noon, the next Monday, 1 February)
StartInstant == 1 * TicksPerDay + 1
Instants ==
  {StartInstant, 2 * TicksPerDay, 2 * TicksPerDay + 1, 7 * TicksPerDay + 1,
   8 * TicksPerDay, 32 * TicksPerDay + 1}

Periods == {"daily", "weekly", "monthly"}

getPeriodStartTimestamp(periodType, t) ==
  CASE periodType = "daily" ->
         DateTs(DateGetMonth(t), DateGetDate(t))
    [] periodType = "weekly" ->
         LET day == DateGetDay(t)
             diff == DateGetDate(t) - day + (IF day = 0 THEN 0 - 6 ELSE 1)
         IN  DateTs(DateGetMonth(t), diff)
    [] periodType = "monthly" ->
         DateTs(DateGetMonth(t), 1)
    [] OTHER -> 0

(***************************************************************************)
(* Stored shapes.  A limit or usage entry of a route is absent, a bare     *)
(* number (legacy) or an object.                                           *)
(***************************************************************************)
AbsentLimit ==
  [kind |-> "absent", n |-> Null, total |-> Null, period |-> "none",
   periodLimit |-> Null, expireAt |-> Null]
NumLimit(n) ==
  [kind |-> "num", n |-> n, total |-> Null, period |-> "none",
   periodLimit |-> Null, expireAt |-> Null]
ObjLimit(total, period, periodLimit, expireAt) ==
  [kind |-> "obj", n |-> Null, total |-> total, period |-> period,
   periodLimit |-> periodLimit, expireAt |-> expireAt]

AbsentUsage ==
  [kind |-> "absent", n |-> Null, totalUsed |-> Null, periodUsed |-> Null, lastReset |-> Null]
NumUsage(n) ==
  [kind |-> "num", n |-> n, totalUsed |-> Null, periodUsed |-> Null, lastReset |-> Null]
ObjUsage(totalUsed, periodUsed, lastReset) ==
  [kind |-> "obj", n |-> Null, totalUsed |-> totalUsed, periodUsed |-> periodUsed,
   lastReset |-> lastReset]

\* the normalised limit that stands for "no limit configured" (null)
NoLimit == [total |-> Null, period |-> "none", periodLimit |-> Null, expireAt |-> Null]

(***************************************************************************)
(* server/handlers/openai.js                                               *)
(***************************************************************************)
parseNonNegativeInt(value, fallback) ==
  IF value = Null THEN fallback
  ELSE IF value < 0 THEN fallback
  ELSE value

normalizeUsageEntry(usage) ==
  IF usage.kind = "num"
    THEN [totalUsed |-> usage.n, periodUsed |-> 0, lastReset |-> 0]
  ELSE IF usage.kind = "obj"
    THEN [totalUsed |-> parseNonNegativeInt(usage.totalUsed, 0),
          periodUsed |-> parseNonNegativeInt(usage.periodUsed, 0),
          lastReset |-> parseNonNegativeInt(usage.lastReset, 0)]
  ELSE [totalUsed |-> 0, periodUsed |-> 0, lastReset |-> 0]

normalizeLimitEntry(limit) ==
  IF limit.kind = "absent" THEN NoLimit
  ELSE IF limit.kind = "num"
    THEN [total |-> limit.n, period |-> "none", periodLimit |-> Null, expireAt |-> Null]
  ELSE
    LET total == IF limit.total # Null THEN parseNonNegativeInt(limit.total, Null) ELSE Null
        period == IF limit.period \in Periods THEN limit.period ELSE "none"
        periodLimit == IF period # "none" /\ limit.periodLimit # Null
                         THEN parseNonNegativeInt(limit.periodLimit, Null) ELSE Null
        expireAt == IF limit.expireAt # Null
                      THEN parseNonNegativeInt(limit.expireAt, Null) ELSE Null
    IN  IF total = Null /\ periodLimit = Null /\ expireAt = Null
          THEN NoLimit
          ELSE [total |-> total, period |-> period, periodLimit |-> periodLimit,
                expireAt |-> expireAt]

\* the value returned to the handler
QuotaResult(allowed, reason, totalLimit, totalUsed, period, periodLimit, periodUsed, expireAt) ==
  [allowed |-> allowed, reason |-> reason, totalLimit |-> totalLimit,
   totalUsed |-> totalUsed, period |-> period, periodLimit |-> periodLimit,
   periodUsed |-> periodUsed, expireAt |-> expireAt]

\* variant: the period counter is kept when a new period starts
rolloverUsageKeep(limitConfig, usageEntry, t) ==
  IF limitConfig.period # "none" /\ limitConfig.periodLimit # Null
    THEN LET periodStart == getPeriodStartTimestamp(limitConfig.period, t)
         IN  IF usageEntry.lastReset < periodStart
               THEN [usageEntry EXCEPT !.lastReset = periodStart]
               ELSE usageEntry
    ELSE usageEntry

\* the usage entry after the period-reset block
rolloverUsage(limitConfig, usageEntry, t) ==
  IF limitConfig.period # "none" /\ limitConfig.periodLimit # Null
    THEN LET periodStart == getPeriodStartTimestamp(limitConfig.period, t)
         IN  IF usageEntry.lastReset < periodStart
               THEN [usageEntry EXCEPT !.periodUsed = 0, !.lastReset = periodStart]
               ELSE usageEntry
    ELSE usageEntry

\* variant: the period counter is bumped whenever a period is named
consumeUsageAnyPeriod(limitConfig, usageEntry) ==
  [usageEntry EXCEPT
     !.totalUsed = @ + 1,
     !.periodUsed = IF limitConfig.period # "none" THEN @ + 1 ELSE @]

\* the usage entry after the "consume" block
consumeUsage(limitConfig, usageEntry) ==
  [usageEntry EXCEPT
     !.totalUsed = @ + 1,
     !.periodUsed = IF limitConfig.period # "none" /\ limitConfig.periodLimit # Null
                      THEN @ + 1 ELSE @]

\* the three rejection tests
limitExpired(expireAt, t) == expireAt # Null /\ t > expireAt

\* variant: off by one
totalExceededStrict(total, usageEntry) == total # Null /\ usageEntry.totalUsed > total

totalExceeded(total, usageEntry) == total # Null /\ usageEntry.totalUsed >= total

periodExceeded(period, periodLimit, usageEntry) ==
  period # "none" /\ periodLimit # Null /\ usageEntry.periodUsed >= periodLimit

\* variant: the period test is made before the total test
rejectReasonPeriodFirst(limitConfig, usage0, t) ==
  IF limitExpired(limitConfig.expireAt, t) THEN "expired"
  ELSE LET usageEntry == rolloverUsage(limitConfig, usage0, t)
       IN  IF periodExceeded(limitConfig.period, limitConfig.periodLimit, usageEntry)
             THEN "period_exceeded"
           ELSE IF totalExceeded(limitConfig.total, usageEntry) THEN "total_exceeded"
           ELSE "none"

\* the order in which the rejection tests are made; usage0 is the stored
\* entry, which the period-reset block rewrites after the expiry test
rejectReason(limitConfig, usage0, t) ==
  IF limitExpired(limitConfig.expireAt, t) THEN "expired"
  ELSE LET usageEntry == rolloverUsage(limitConfig, usage0, t)
       IN  IF totalExceeded(limitConfig.total, usageEntry) THEN "total_exceeded"
           ELSE IF periodExceeded(limitConfig.period, limitConfig.periodLimit, usageEntry)
             THEN "period_exceeded"
           ELSE "none"

\* consumeRoutingModelQuota(routeId, modelId) at time t on the route record rt.
\* variant: a rejecting check writes the entry it evaluated back
routeOnRejectStored(rt, modelId, usageEntry) ==
  [rt EXCEPT !.modelUsage[modelId] =
     ObjUsage(usageEntry.totalUsed, usageEntry.periodUsed, usageEntry.lastReset)]

\* the route record after a rejecting check: every rejection returns before
\* route.modelUsage is assigned, and usageEntry is a copy of the stored entry
routeOnReject(rt, modelId, usageEntry) == rt

\* Yields the result, the route record afterwards and whether a save of the
\* route records is attempted.
consumeRoutingModelQuota(rt, modelId, t) ==
  LET limitConfig == normalizeLimitEntry(rt.modelLimits[modelId])
      usage0 == normalizeUsageEntry(rt.modelUsage[modelId])
      usageEntry == rolloverUsage(limitConfig, usage0, t)
      reason == rejectReason(limitConfig, usage0, t)
  IN
  IF limitConfig = NoLimit
    THEN [res |-> QuotaResult(TRUE, "none", Null, Null, "none", Null, Null, Null),
          route |-> rt, save |-> FALSE]
  ELSE IF reason = "expired"
    THEN [res |-> QuotaResult(FALSE, "expired", Null, Null, "none", Null, Null,
                              limitConfig.expireAt),
          route |-> routeOnReject(rt, modelId, usageEntry), save |-> FALSE]
  ELSE IF reason = "total_exceeded"
    THEN [res |-> QuotaResult(FALSE, "total_exceeded", limitConfig.total,
                              usageEntry.totalUsed, "none", Null, Null, Null),
          route |-> routeOnReject(rt, modelId, usageEntry), save |-> FALSE]
  ELSE IF reason = "period_exceeded"
    THEN [res |-> QuotaResult(FALSE, "period_exceeded", Null, Null, limitConfig.period,
                              limitConfig.periodLimit, usageEntry.periodUsed, Null),
          route |-> routeOnReject(rt, modelId, usageEntry), save |-> FALSE]
  ELSE
    LET next == consumeUsage(limitConfig, usageEntry)
        stored == ObjUsage(next.totalUsed, next.periodUsed, next.lastReset)
    IN  [res |-> QuotaResult(TRUE, "none", Null, next.totalUsed, "none", Null,
                             next.periodUsed, Null),
         route |-> [rt EXCEPT !.modelUsage[modelId] = stored],
         save |-> TRUE]

(***************************************************************************)
(* server/handlers/claude.js: the handler's own copy of the quota code.    *)
(***************************************************************************)
\* variant: zero is taken for an invalid number
claudeParseNonNegativeIntPositive(value, fallback) ==
  IF value = Null THEN fallback
  ELSE IF value <= 0 THEN fallback
  ELSE value

claudeParseNonNegativeInt(value, fallback) ==
  IF value = Null THEN fallback
  ELSE IF value < 0 THEN fallback
  ELSE value

claudeNormalizeUsageEntry(usage) ==
  IF usage.kind = "num"
    THEN [totalUsed |-> usage.n, periodUsed |-> 0, lastReset |-> 0]
  ELSE IF usage.kind = "obj"
    THEN [totalUsed |-> claudeParseNonNegativeInt(usage.totalUsed, 0),
          periodUsed |-> claudeParseNonNegativeInt(usage.periodUsed, 0),
          lastReset |-> claudeParseNonNegativeInt(usage.lastReset, 0)]
  ELSE [totalUsed |-> 0, periodUsed |-> 0, lastReset |-> 0]

claudeNormalizeLimitEntry(limit) ==
  IF limit.kind = "absent" THEN NoLimit
  ELSE IF limit.kind = "num"
    THEN [total |-> limit.n, period |-> "none", periodLimit |-> Null, expireAt |-> Null]
  ELSE
    LET total == IF limit.total # Null THEN claudeParseNonNegativeInt(limit.total, Null) ELSE Null
        period == IF limit.period \in Periods THEN limit.period ELSE "none"
        periodLimit == IF period # "none" /\ limit.periodLimit # Null
                         THEN claudeParseNonNegativeInt(limit.periodLimit, Null) ELSE Null
        expireAt == IF limit.expireAt # Null
                      THEN claudeParseNonNegativeInt(limit.expireAt, Null) ELSE Null
    IN  IF total = Null /\ periodLimit = Null /\ expireAt = Null
          THEN NoLimit
          ELSE [total |-> total, period |-> period, periodLimit |-> periodLimit,
                expireAt |-> expireAt]

claudeGetPeriodStartTimestamp(periodType, t) ==
  CASE periodType = "daily" ->
         DateTs(DateGetMonth(t), DateGetDate(t))
    [] periodType = "weekly" ->
         LET day == DateGetDay(t)
             diff == DateGetDate(t) - day + (IF day = 0 THEN 0 - 6 ELSE 1)
         IN  DateTs(DateGetMonth(t), diff)
    [] periodType = "monthly" ->
         DateTs(DateGetMonth(t), 1)
    [] OTHER -> 0

claudeConsumeRoutingModelQuota(rt, modelId, t) ==
  LET limitConfig == claudeNormalizeLimitEntry(rt.modelLimits[modelId])
      usage0 == claudeNormalizeUsageEntry(rt.modelUsage[modelId])
      total == limitConfig.total
      period == limitConfig.period
      periodLimit == limitConfig.periodLimit
      expireAt == limitConfig.expireAt
      periodStart == claudeGetPeriodStartTimestamp(period, t)
      usageEntry ==
        IF period # "none" /\ periodLimit # Null /\ usage0.lastReset < periodStart
          THEN [usage0 EXCEPT !.periodUsed = 0, !.lastReset = periodStart]
          ELSE usage0
  IN
  IF limitConfig = NoLimit
    THEN [res |-> QuotaResult(TRUE, "none", Null, Null, "none", Null, Null, Null),
          route |-> rt, save |-> FALSE]
  ELSE IF expireAt # Null /\ t > expireAt
    THEN [res |-> QuotaResult(FALSE, "expired", Null, Null, "none", Null, Null, expireAt),
          route |-> rt, save |-> FALSE]
  ELSE IF total # Null /\ usageEntry.totalUsed >= total
    THEN [res |-> QuotaResult(FALSE, "total_exceeded", total, usageEntry.totalUsed,
                              "none", Null, Null, Null),
          route |-> rt, save |-> FALSE]
  ELSE IF period # "none" /\ periodLimit # Null /\ usageEntry.periodUsed >= periodLimit
    THEN [res |-> QuotaResult(FALSE, "period_exceeded", Null, Null, period, periodLimit,
                              usageEntry.periodUsed, Null),
          route |-> rt, save |-> FALSE]
  ELSE
    LET totalUsed == usageEntry.totalUsed + 1
        periodUsed == IF period # "none" /\ periodLimit # Null
                        THEN usageEntry.periodUsed + 1 ELSE usageEntry.periodUsed
        stored == ObjUsage(totalUsed, periodUsed, usageEntry.lastReset)
    IN  [res |-> QuotaResult(TRUE, "none", Null, totalUsed, "none", Null, periodUsed, Null),
         route |-> [rt EXCEPT !.modelUsage[modelId] = stored],
         save |-> TRUE]

(***************************************************************************)
(* State.                                                                  *)
(***************************************************************************)
VARIABLES
  now,        \* Date.now()
  route,      \* the non-master route record in config.routing.routes
  disk,       \* modelUsage of that route as last written to config.json
  lastCheck,  \* the most recent quota check: its inputs and its outcome
  checks,     \* per model: quota checks made so far
  admits,     \* per model: quota checks that returned allowed
  usageInit,  \* per model: the usage entry the behaviour started with
  peAt,       \* per model: start of the period in which the model was last
              \* rejected with period_exceeded, or Null
  reqs,       \* the chat requests: where each handler invocation stands
  tmKind,     \* which credential store: "codex" or "kiro"
  accounts,   \* this.accounts: the objects of the current list, by value
  file,       \* the accounts file: the list as last written, by value
  currentIndex, \* this.currentIndex
  calls,      \* the getToken calls: where each one stands
  issued,     \* access tokens handed out by the token endpoint so far
  strm,       \* the locals of the Claude handler's response code
  out,        \* what the Claude handler has written to the response
  ups,        \* the upstream events the Claude handler has received
  providers,  \* ProviderManager.providers, in registration order
  modelProviderMapping, \* ProviderManager.modelProviderMapping, in insertion order
  pm,         \* ProviderManager.initialized and the handleChat calls made
  relay,      \* one chat request from its upstream call to the end of its handler
  codex,      \* CodexProvider: its rate-limit map and the calls made through it
  wire        \* what a handler has sent to its client, field by field

quotaVars == <<now, route, disk, lastCheck, checks, admits, usageInit, peAt>>

tokVars == <<tmKind, accounts, file, currentIndex, calls, issued>>

streamVars == <<strm, out, ups>>

provVars == <<providers, modelProviderMapping, pm>>

moreVars == <<relay, codex, wire>>

otherVars == <<streamVars, provVars, moreVars>>

vars == <<quotaVars, reqs, tokVars, otherVars>>

\* no request relayed, a CodexProvider just constructed, nothing sent
MoreIdle ==
  /\ relay = [pc |-> "idle"]
  /\ codex = [pc |-> "idle"]
  /\ wire = << >>

\* a Claude handler that has not been entered
StreamIdle ==
  /\ strm = [pc |-> "new"]
  /\ out = << >>
  /\ ups = << >>

\* a ProviderManager that has been constructed
ProvIdle ==
  /\ providers = << >>
  /\ modelProviderMapping = << >>
  /\ pm = [initialized |-> FALSE, chats |-> << >>]

\* a credential store that has been constructed and not loaded
TokIdle ==
  /\ tmKind = "codex"
  /\ accounts = << >>
  /\ file = << >>
  /\ currentIndex = 0
  /\ calls = << >>
  /\ issued = 0

\* model names a route can meter, and the names a client can send
ModelIds == {"m1", "m2", "gpt-5"}
Names == ModelIds \cup {"fast", "zz"}

ReqIds == 1..MaxReqs

\* a request that has not arrived yet
NewReq ==
  [pc |-> "new", handler |-> "none", master |-> FALSE, hasMessages |-> TRUE,
   model |-> "", actual |-> "", status |-> 0, quota |-> "none", checked |-> "none",
   sent |-> "none", gone |-> FALSE]

\* limits the admin layer can store for the metered model
LimitTotals == {Null, 0, 2}
LimitPeriodLimits == {Null, 0, 1}
LimitExpireAts == {Null, 7 * TicksPerDay}
StoredLimits ==
  {ObjLimit(tt, "none", Null, e) : tt \in LimitTotals, e \in LimitExpireAts}
    \cup {ObjLimit(tt, "daily", pl, e) :
             tt \in {Null, 2}, pl \in LimitPeriodLimits, e \in LimitExpireAts}
    \cup {ObjLimit(tt, p, 2, Null) : tt \in {Null, 2}, p \in {"weekly", "monthly"}}
    \cup {AbsentLimit, NumLimit(2)}

\* usage entries a route can start with
StoredUsages ==
  {AbsentUsage, NumUsage(1), ObjUsage(0, 0, 0), ObjUsage(1, 1, 1 * TicksPerDay)}

NoCheck ==
  [model |-> "none", t |-> 0, limit |-> NoLimit,
   pre |-> [totalUsed |-> 0, periodUsed |-> 0, lastReset |-> 0],
   post |-> [totalUsed |-> 0, periodUsed |-> 0, lastReset |-> 0],
   res |-> QuotaResult(TRUE, "none", Null, Null, "none", Null, Null, Null),
   saveOk |-> FALSE, saved |-> FALSE, prevPE |-> Null]

InitQuota ==
  /\ now = StartInstant
  /\ \E lim \in StoredLimits, us \in StoredUsages :
       /\ route = [models |-> {"m1", "m2"},
                   aliases |-> [a \in {} |-> "m1"],
                   modelLimits |-> [m \in Names |->
                                      IF m = "m1" THEN lim
                                      ELSE IF m = "m2" THEN ObjLimit(1, "none", Null, Null)
                                      ELSE AbsentLimit],
                   modelUsage |-> [m \in Names |-> IF m = "m1" THEN us ELSE AbsentUsage]]
       /\ usageInit = [m \in Names |-> IF m = "m1" THEN us ELSE AbsentUsage]
  /\ disk = route.modelUsage
  /\ lastCheck = NoCheck
  /\ checks = [m \in Names |-> 0]
  /\ admits = [m \in Names |-> 0]
  /\ peAt = [m \in Names |-> Null]
  /\ reqs = [r \in ReqIds |-> NewReq]
  /\ TokIdle
  /\ StreamIdle
  /\ ProvIdle
  /\ MoreIdle

\* bookkeeping shared by the two handlers' quota checks: r is what the
\* handler's consumeRoutingModelQuota returned for model m; saveOk tells
\* whether saveConfigJson completed without throwing, saved whether it was
\* called at all
RecordCheck(m, r, saveOk) ==
  /\ route' = r.route
  /\ disk' = IF r.save /\ saveOk THEN r.route.modelUsage ELSE disk
  /\ lastCheck' = [model |-> m, t |-> now,
                   limit |-> normalizeLimitEntry(route.modelLimits[m]),
                   pre |-> normalizeUsageEntry(route.modelUsage[m]),
                   post |-> normalizeUsageEntry(r.route.modelUsage[m]),
                   res |-> r.res, saveOk |-> saveOk, saved |-> r.save,
                   prevPE |-> peAt[m]]
  /\ checks' = [checks EXCEPT ![m] = @ + 1]
  /\ admits' = [admits EXCEPT ![m] = IF r.res.allowed THEN @ + 1 ELSE @]
  /\ peAt' = IF r.res.reason = "period_exceeded"
               THEN [peAt EXCEPT ![m] = getPeriodStartTimestamp(r.res.period, now)]
               ELSE peAt

ChecksSoFar == checks["m1"] + checks["m2"] + checks["gpt-5"]

\* consumeRoutingModelQuota called from handleOpenAIRequest
OpenAIQuotaCheck(m, saveOk) ==
  /\ ChecksSoFar < MaxChecks
  /\ RecordCheck(m, consumeRoutingModelQuota(route, m, now), saveOk)
  /\ UNCHANGED <<now, usageInit, reqs, tokVars, otherVars>>

\* consumeRoutingModelQuota called from handleClaudeRequest
ClaudeQuotaCheck(m, saveOk) ==
  /\ ChecksSoFar < MaxChecks
  /\ RecordCheck(m, claudeConsumeRoutingModelQuota(route, m, now), saveOk)
  /\ UNCHANGED <<now, usageInit, reqs, tokVars, otherVars>>

\* time passes between requests
Tick(t) ==
  /\ t \in Instants
  /\ t > now
  /\ now' = t
  /\ UNCHANGED <<route, disk, lastCheck, checks, admits, usageInit, peAt, reqs, tokVars, otherVars>>

NextQuota ==
  \/ \E m \in ModelIds, saveOk \in BOOLEAN : OpenAIQuotaCheck(m, saveOk)
  \/ \E m \in ModelIds, saveOk \in BOOLEAN : ClaudeQuotaCheck(m, saveOk)
  \/ \E t \in Instants : Tick(t)

SpecQuota == InitQuota /\ [][NextQuota]_vars

(***************************************************************************)
(* The chat handlers: handleOpenAIRequest and handleClaudeRequest.  The    *)
(* code from the start of a handler to its first await runs as one step.   *)
(***************************************************************************)
\* server/index.js, API key middleware: the route object handed to a handler
downstreamRoute(rt, master) ==
  IF master
    THEN [id |-> "master", isMaster |-> TRUE, models |-> {},
          modelAliases |-> [a \in {} |-> ""]]
    ELSE [id |-> "r1", isMaster |-> FALSE, models |-> rt.models,
          modelAliases |-> rt.aliases]

\* isCodexModel: gpt-*, gpt_*, o<digit>* and names containing "codex"
isCodexModel(modelId) == modelId \in {"gpt-5"}

\* alias resolution and allow-list test of a non-master route
resolveModel(ds, requestedModel) ==
  IF requestedModel \in DOMAIN ds.modelAliases
    THEN LET mapped == ds.modelAliases[requestedModel]
         IN  IF mapped = "" THEN [ok |-> FALSE, actual |-> requestedModel]
             ELSE [ok |-> TRUE, actual |-> mapped]
  ELSE IF requestedModel \in ds.models
    THEN [ok |-> TRUE, actual |-> requestedModel]
  ELSE [ok |-> FALSE, actual |-> requestedModel]

\* variant: the quota is looked up under the name the client sent
quotaModelIdRequested(requestedModel, actualModel) == requestedModel

\* the model name handed to consumeRoutingModelQuota
quotaModelId(requestedModel, actualModel) == actualModel

\* variant: a failed request gives its unit back
routeAfterFailureRefund(rt, modelId) ==
  IF rt.modelUsage[modelId].kind = "obj" /\ normalizeLimitEntry(rt.modelLimits[modelId]) # NoLimit
    THEN [rt EXCEPT !.modelUsage[modelId].totalUsed = @ - 1]
    ELSE rt

\* the route record after a handler's catch block has run for a request
\* that was dispatched for modelId
routeAfterFailure(rt, modelId) == rt

\* routes the admin layer can store
AliasMaps ==
  {[a \in {} |-> ""], [a \in {"fast"} |-> "m1"], [a \in {"fast"} |-> "gpt-5"],
   [a \in {"m2"} |-> "m1"], [a \in {"m1"} |-> "m1"]}
RouteModelSets == {{"m1", "m2"}, {"m1", "gpt-5"}}

\* what a client sends: <<master key?, messages present?, model ("" = missing)>>
RequestInputs ==
  {<<FALSE, TRUE, n>> : n \in Names}
    \cup {<<FALSE, TRUE, "">>, <<FALSE, FALSE, "m1">>, <<TRUE, TRUE, "m1">>, <<TRUE, TRUE, "zz">>}

InitHandler ==
  /\ now = StartInstant
  /\ \E ms \in RouteModelSets, al \in AliasMaps, lim \in {AbsentLimit, ObjLimit(1, "none", Null, Null)} :
       route = [models |-> ms,
                aliases |-> al,
                modelLimits |-> [m \in Names |->
                                   IF m = "m1" THEN lim
                                   ELSE IF m \in ms THEN ObjLimit(2, "none", Null, Null)
                                   ELSE AbsentLimit],
                modelUsage |-> [m \in Names |-> AbsentUsage]]
  /\ usageInit = [m \in Names |-> AbsentUsage]
  /\ disk = route.modelUsage
  /\ lastCheck = NoCheck
  /\ checks = [m \in Names |-> 0]
  /\ admits = [m \in Names |-> 0]
  /\ peAt = [m \in Names |-> Null]
  /\ reqs = [r \in ReqIds |-> NewReq]
  /\ TokIdle
  /\ StreamIdle
  /\ ProvIdle
  /\ MoreIdle

\* requests arrive in the order of their ids
MayArrive(r) ==
  /\ reqs[r].pc = "new"
  /\ \A q \in ReqIds : q < r => reqs[q].pc # "new"

\* the handler answers without touching the route
Answer(r, rec, status) ==
  /\ reqs' = [reqs EXCEPT ![r] = [rec EXCEPT !.pc = "done", !.status = status]]
  /\ UNCHANGED quotaVars

\* handleOpenAIRequest / handleClaudeRequest from entry to the first await.
\* q is the result of the handler's own consumeRoutingModelQuota, evaluated
\* for the model the handler passes to it.
Receive(r, h, master, hasMessages, model, saveOk) ==
  LET ds == downstreamRoute(route, master)
      rs == IF ds.isMaster THEN [ok |-> TRUE, actual |-> model] ELSE resolveModel(ds, model)
      rec == [reqs[r] EXCEPT !.handler = h, !.master = master,
                             !.hasMessages = hasMessages, !.model = model]
      key == quotaModelId(model, rs.actual)
      q == IF h = "openai" THEN consumeRoutingModelQuota(route, key, now)
           ELSE claudeConsumeRoutingModelQuota(route, key, now)
      next == IF h = "openai" /\ isCodexModel(rs.actual) THEN "codex" ELSE "token"
  IN
  /\ MayArrive(r)
  /\ UNCHANGED <<tokVars, otherVars>>
  /\ IF ~hasMessages THEN Answer(r, rec, 400)
     ELSE IF model = "" THEN Answer(r, rec, 400)
     ELSE IF ~rs.ok THEN Answer(r, rec, 400)
     ELSE IF ds.isMaster
       THEN /\ reqs' = [reqs EXCEPT ![r] = [rec EXCEPT !.pc = next, !.actual = rs.actual]]
            /\ UNCHANGED quotaVars
     ELSE /\ RecordCheck(key, q, saveOk)
          /\ UNCHANGED <<now, usageInit>>
          /\ reqs' = [reqs EXCEPT ![r] =
               [rec EXCEPT !.actual = rs.actual, !.checked = key,
                           !.quota = IF q.res.allowed THEN "allowed" ELSE "rejected",
                           !.pc = IF q.res.allowed THEN next ELSE "done",
                           !.status = IF q.res.allowed THEN 0 ELSE 429]]

OpenAIReceive(r, master, hasMessages, model, saveOk) ==
  Receive(r, "openai", master, hasMessages, model, saveOk)

ClaudeReceive(r, master, hasMessages, model, saveOk) ==
  Receive(r, "claude", master, hasMessages, model, saveOk)

\* await tokenManager.getToken() resolves: a token, null, or a rejection
TokenResult(r, outcome) ==
  /\ reqs[r].pc = "token"
  /\ IF outcome = "token"
       THEN /\ reqs' = [reqs EXCEPT ![r].pc = "upstream", ![r].sent = reqs[r].actual]
            /\ UNCHANGED <<quotaVars, tokVars, otherVars>>
       ELSE /\ reqs' = [reqs EXCEPT ![r].pc = "done", ![r].status = 500]
            /\ route' = routeAfterFailure(route, reqs[r].actual)
            /\ UNCHANGED <<now, disk, lastCheck, checks, admits, usageInit, peAt, tokVars, otherVars>>

\* the Codex branch of the OpenAI handler. codexProvider has no chatOpenAI
\* and no chatOpenAIStream method, so after initialize() (which may itself
\* reject) the call throws a TypeError before anything is sent upstream.
\* A streaming request has its headers out by then (status 200, the catch
\* block returns silently); any other request is answered 500.
CodexResult(r, stream, initOk) ==
  /\ reqs[r].pc = "codex"
  /\ reqs' = [reqs EXCEPT ![r].pc = "done",
                          ![r].status = IF initOk /\ stream THEN 200 ELSE 500]
  /\ route' = routeAfterFailure(route, reqs[r].actual)
  /\ UNCHANGED <<now, disk, lastCheck, checks, admits, usageInit, peAt, tokVars, otherVars>>

\* the upstream call (inside with429Retry) returns, or throws after the retries
UpstreamResult(r, outcome) ==
  /\ reqs[r].pc = "upstream"
  /\ reqs' = [reqs EXCEPT ![r].pc = "done",
                          ![r].status = CASE outcome = "ok" -> 200
                                          [] outcome = "rate_limited" -> 429
                                          [] OTHER -> 500]
  /\ route' = IF outcome = "ok" THEN route ELSE routeAfterFailure(route, reqs[r].actual)
  /\ UNCHANGED <<now, disk, lastCheck, checks, admits, usageInit, peAt, tokVars, otherVars>>

\* the client goes away while its request is in flight; no handler code
\* listens for it
ClientDisconnect(r) ==
  /\ reqs[r].pc \in {"token", "codex", "upstream"}
  /\ ~reqs[r].gone
  /\ reqs' = [reqs EXCEPT ![r].gone = TRUE]
  /\ UNCHANGED <<quotaVars, tokVars, otherVars>>

NextHandler ==
  \/ \E r \in ReqIds, i \in RequestInputs, saveOk \in BOOLEAN :
       OpenAIReceive(r, i[1], i[2], i[3], saveOk)
  \/ \E r \in ReqIds, i \in RequestInputs, saveOk \in BOOLEAN :
       ClaudeReceive(r, i[1], i[2], i[3], saveOk)
  \/ \E r \in ReqIds, outcome \in {"token", "null", "throw"} : TokenResult(r, outcome)
  \/ \E r \in ReqIds, stream \in BOOLEAN, initOk \in BOOLEAN : CodexResult(r, stream, initOk)
  \/ \E r \in ReqIds, outcome \in {"ok", "rate_limited", "error"} : UpstreamResult(r, outcome)
  \/ \E r \in ReqIds : ClientDisconnect(r)

SpecHandler == InitHandler /\ [][NextHandler]_vars

(***************************************************************************)
(* The credential stores: CodexTokenManager and KiroTokenManager.  An      *)
(* account is an object; getToken and refreshToken hold a reference to it  *)
(* across their awaits, and load() replaces the list by new objects, so a  *)
(* call in flight can be left holding an object that is in no list.  In    *)
(* this part one unit of now is one millisecond.                           *)
(***************************************************************************)
MaxCalls == 3
MaxAttempts == 3
MaxIssued == 2

\* CODEX_CONSTANTS.TOKEN_REFRESH_BUFFER, and the literal in Kiro's isExpired
TOKEN_REFRESH_BUFFER == 10 * 60 * 1000
KiroRefreshBuffer == 10 * 60 * 1000

\* Date.now() when the behaviour starts
TokStart == 1000000

\* lifetime of a refreshed token: expires_in * 1000
ExpiresInMs == 3600 * 1000

\* an account as stored; refresh_token tells whether one is present and
\* access_token which token it is (0: the one it was added with).  Kiro
\* spells the fields refreshToken, expiresAt, accessToken and has no
\* auth_type: all its accounts are OAuth accounts.
Account(id, enable, auth_type, refresh_token, expires_at) ==
  [id |-> id, enable |-> enable, auth_type |-> auth_type,
   refresh_token |-> refresh_token, expires_at |-> expires_at, access_token |-> 0]

\* expiry instants: stale on the boundary at TokStart, fresh by one
\* millisecond, and far away
ExpEdge == TokStart + TOKEN_REFRESH_BUFFER
ExpNear == TokStart + TOKEN_REFRESH_BUFFER + 1
ExpFar == TokStart + TOKEN_REFRESH_BUFFER + 1000

\* account files the admin layer can have written
CodexAccountLists ==
  {<<Account("a1", TRUE, "oauth", TRUE, ExpFar), Account("a2", TRUE, "oauth", TRUE, ExpFar)>>,
   <<Account("a1", TRUE, "oauth", TRUE, ExpFar), Account("a2", FALSE, "oauth", TRUE, ExpEdge),
     Account("a3", TRUE, "api_key", FALSE, Null)>>,
   <<Account("a1", TRUE, "oauth", TRUE, ExpEdge)>>,
   <<Account("a1", TRUE, "oauth", TRUE, ExpEdge), Account("a2", TRUE, "oauth", FALSE, ExpEdge)>>,
   <<Account("a1", TRUE, "api_key", FALSE, ExpEdge), Account("a2", TRUE, "oauth", TRUE, ExpNear)>>,
   <<Account("a1", TRUE, "oauth", FALSE, ExpEdge), Account("a2", TRUE, "oauth", TRUE, ExpFar)>>,
   <<Account("a1", FALSE, "oauth", TRUE, ExpFar)>>}

KiroAccountLists ==
  {<<Account("a1", TRUE, "oauth", TRUE, ExpFar), Account("a2", TRUE, "oauth", TRUE, Null)>>,
   <<Account("a1", TRUE, "oauth", TRUE, ExpFar), Account("a2", FALSE, "oauth", TRUE, ExpEdge),
     Account("a3", TRUE, "oauth", TRUE, ExpFar)>>,
   <<Account("a1", TRUE, "oauth", TRUE, ExpEdge)>>,
   <<Account("a1", TRUE, "oauth", TRUE, ExpEdge), Account("a2", TRUE, "oauth", FALSE, ExpEdge)>>,
   <<Account("a1", TRUE, "oauth", FALSE, ExpEdge), Account("a2", TRUE, "oauth", TRUE, ExpFar)>>,
   <<Account("a1", FALSE, "oauth", TRUE, ExpFar)>>}

CallIds == 1..MaxCalls

\* the clients whose requests can be waiting on the store at the same time
Callers == {"p", "q"}

\* the object of a call that holds none
NoAccount == Account("none", FALSE, "none", FALSE, Null)

\* a getToken call that has not been made yet.  While the call is in
\* flight, acct is the position of its account in this.accounts if live,
\* and otherwise obj is the account object it holds; calls with the same
\* grp hold the same such object.  reloaded tells that the token endpoint
\* answered the call's refresh after a reload had replaced this.accounts;
\* selIndex is, while the call is in flight, the value of this.currentIndex
\* its last selection read.
NewCall ==
  [pc |-> "new", live |-> FALSE, acct |-> 0, obj |-> NoAccount, grp |-> 0,
   nEnabled |-> 0, attempts |-> 0,
   selAuth |-> "none", selExpires |-> Null, selAt |-> 0,
   refreshed |-> FALSE, result |-> "none", reloaded |-> FALSE,
   selIndex |-> 0]

InFlight == {c \in CallIds : calls[c].pc \in {"refreshing", "rejected", "saving"}}

\* the account object call c holds
held(c) == IF calls[c].live THEN accounts[calls[c].acct] ELSE calls[c].obj

\* variant: staleness without the refresh buffer
isExpiredNoBuffer(account, t) ==
  IF account.auth_type = "api_key" THEN FALSE
  ELSE IF account.expires_at = Null THEN FALSE
  ELSE t >= account.expires_at

\* CodexTokenManager.isExpired
isExpired(account, t) ==
  IF account.auth_type = "api_key" THEN FALSE
  ELSE IF account.expires_at = Null THEN FALSE
  ELSE t >= account.expires_at - TOKEN_REFRESH_BUFFER

\* KiroTokenManager.isExpired
kiroIsExpired(account, t) ==
  IF account.expires_at = Null THEN FALSE
  ELSE t >= account.expires_at - KiroRefreshBuffer

\* the condition under which getToken calls refreshToken
needsRefresh(kind, account, t) ==
  IF kind = "codex"
    THEN account.auth_type = "oauth" /\ isExpired(account, t)
    ELSE kiroIsExpired(account, t)

\* variant: accounts with a rate-limit entry are passed over
enabledAccountsNotLimited ==
  SelectSeq([i \in DOMAIN accounts |-> i],
            LAMBDA i : accounts[i].enable
                         /\ ~codex.rateLimitStatus[accounts[i].id].rateLimited)

\* positions of this.accounts.filter(a => a.enable !== false)
enabledAccounts ==
  SelectSeq([i \in DOMAIN accounts |-> i], LAMBDA i : accounts[i].enable)

\* variant: the slot does not rotate
selectIndexFirst(index, n) == 0

\* the round-robin slot: this.currentIndex % enabledAccounts.length
selectIndex(index, n) == index % n

\* a server that has loaded no route and received no request
QuotaIdle ==
  /\ route = [models |-> {}, aliases |-> [a \in {} |-> ""],
              modelLimits |-> [m \in Names |-> AbsentLimit],
              modelUsage |-> [m \in Names |-> AbsentUsage]]
  /\ usageInit = [m \in Names |-> AbsentUsage]
  /\ disk = route.modelUsage
  /\ lastCheck = NoCheck
  /\ checks = [m \in Names |-> 0]
  /\ admits = [m \in Names |-> 0]
  /\ peAt = [m \in Names |-> Null]
  /\ reqs = [r \in ReqIds |-> NewReq]

InitTok ==
  /\ now = TokStart
  /\ \E kind \in {"codex", "kiro"} :
       /\ tmKind = kind
       /\ \E l \in (IF kind = "codex" THEN CodexAccountLists ELSE KiroAccountLists) :
            /\ accounts = l
            /\ file = l
  /\ currentIndex = 0
  /\ calls = [c \in CallIds |-> NewCall]
  /\ issued = 0
  /\ QuotaIdle
  /\ StreamIdle
  /\ ProvIdle
  /\ MoreIdle

restVars == <<now, route, disk, lastCheck, checks, admits, usageInit, peAt, reqs, otherVars>>

\* variant: the index is left as it was read
nextIndexKeep(index) == index

\* this.currentIndex++, the statement after the read of the index
nextIndex(index) == index + 1

\* call c has ended with the given result and holds no object any more
ended(c, result, refreshed) ==
  [calls[c] EXCEPT !.pc = "done", !.result = result, !.refreshed = refreshed,
                   !.live = FALSE, !.acct = 0, !.obj = NoAccount, !.grp = 0,
                   !.reloaded = FALSE, !.selIndex = 0]

\* one run of getToken's body for call c, from its entry to its first await
\* or its return: select, advance the index, and start a refresh if the
\* selected account needs one.  refreshToken rejects at once when the
\* account has no refresh token.
getTokenBody(c) ==
  LET enabled == enabledAccounts
      i == enabled[selectIndex(currentIndex, Len(enabled)) + 1]
      account == accounts[i]
      sel == [calls[c] EXCEPT !.live = TRUE, !.acct = i, !.obj = NoAccount, !.grp = 0,
                              !.reloaded = FALSE,
                              !.selIndex = currentIndex,
                              !.nEnabled = Len(enabled),
                              !.selAuth = account.auth_type,
                              !.selExpires = account.expires_at, !.selAt = now]
  IN
  IF Len(enabled) = 0
    THEN /\ calls' = [calls EXCEPT ![c] = ended(c, "null", FALSE)]
         /\ UNCHANGED currentIndex
    ELSE /\ currentIndex' = nextIndex(currentIndex)
         /\ calls' = [calls EXCEPT ![c] =
              IF needsRefresh(tmKind, account, now)
                THEN [sel EXCEPT !.attempts = @ + 1,
                                 !.pc = IF account.refresh_token THEN "refreshing"
                                        ELSE "rejected"]
                ELSE [sel EXCEPT !.pc = "done", !.result = account.id,
                                 !.live = FALSE, !.acct = 0, !.selIndex = 0]]

\* getToken's catch block: try the next account when more than one was
\* enabled, otherwise rethrow
getTokenCatch(c) ==
  IF calls[c].nEnabled > 1
    THEN /\ calls[c].attempts < MaxAttempts
         /\ getTokenBody(c)
    ELSE /\ calls' = [calls EXCEPT ![c] = ended(c, "error", FALSE)]
         /\ UNCHANGED currentIndex

\* a caller invokes getToken; calls are made in the order of their ids
GetToken(c) ==
  /\ calls[c].pc = "new"
  /\ \A d \in CallIds : d < c => calls[d].pc # "new"
  /\ Cardinality(InFlight) < Cardinality(Callers)
  /\ getTokenBody(c)
  /\ UNCHANGED <<tmKind, accounts, file, issued, restVars>>

\* the rejection of refreshToken (no refresh token) reaches getToken
RefreshRejected(c) ==
  /\ calls[c].pc = "rejected"
  /\ getTokenCatch(c)
  /\ UNCHANGED <<tmKind, accounts, file, issued, restVars>>

\* the account object after refreshToken has written a response into it
refreshedAccount(account, token, t) ==
  [account EXCEPT !.access_token = token, !.refresh_token = TRUE,
                  !.expires_at = t + ExpiresInMs]

\* the token endpoint answers the axios.post of refreshToken: with new
\* tokens, which are written into the account object the call holds, or
\* with an error
RefreshResponse(c, ok) ==
  /\ calls[c].pc = "refreshing"
  /\ IF ok
       THEN /\ issued < MaxIssued
            /\ issued' = issued + 1
            /\ IF calls[c].live
                 THEN /\ accounts' = [accounts EXCEPT ![calls[c].acct] =
                                        refreshedAccount(@, issued + 1, now)]
                      /\ calls' = [calls EXCEPT ![c].pc = "saving"]
                 ELSE /\ calls' = [d \in CallIds |->
                           LET w == IF d \in InFlight /\ ~calls[d].live
                                        /\ calls[d].grp = calls[c].grp
                                      THEN [calls[d] EXCEPT !.obj =
                                              refreshedAccount(@, issued + 1, now)]
                                      ELSE calls[d]
                           IN  IF d = c THEN [w EXCEPT !.pc = "saving", !.reloaded = TRUE]
                               ELSE w]
                      /\ UNCHANGED accounts
            /\ UNCHANGED currentIndex
       ELSE /\ getTokenCatch(c)
            /\ UNCHANGED <<accounts, issued>>
  /\ UNCHANGED <<tmKind, file, restVars>>

\* await this.save() inside refreshToken ends: the current list has been
\* written and refreshToken returns the account, which getToken returns;
\* or the write failed and the error reaches getToken's catch block
SaveDone(c, ok) ==
  /\ calls[c].pc = "saving"
  /\ IF ok
       THEN /\ file' = accounts
            /\ calls' = [calls EXCEPT ![c] = ended(c, held(c).id, TRUE)]
            /\ UNCHANGED currentIndex
       ELSE /\ getTokenCatch(c)
            /\ UNCHANGED file
  /\ UNCHANGED <<tmKind, accounts, issued, restVars>>

\* reload(): load() reads the file and replaces this.accounts by the
\* objects parsed from it; the calls in flight keep the objects they hold
Reload ==
  /\ accounts' = file
  /\ calls' = [c \in CallIds |->
       IF c \in InFlight /\ calls[c].live
         THEN [calls[c] EXCEPT
                 !.live = FALSE, !.obj = accounts[calls[c].acct], !.acct = 0,
                 !.grp = CHOOSE d \in InFlight :
                           /\ calls[d].live /\ calls[d].acct = calls[c].acct
                           /\ \A e \in InFlight :
                                (calls[e].live /\ calls[e].acct = calls[c].acct) => d <= e]
         ELSE calls[c]]
  /\ UNCHANGED <<tmKind, file, currentIndex, issued, restVars>>

NextTok ==
  \/ \E c \in CallIds : GetToken(c)
  \/ \E c \in CallIds : RefreshRejected(c)
  \/ \E c \in CallIds, ok \in BOOLEAN : RefreshResponse(c, ok)
  \/ \E c \in CallIds, ok \in BOOLEAN : SaveDone(c, ok)
  \/ Reload

SpecTok == InitTok /\ [][NextTok]_vars

(***************************************************************************)
(* Calendar facts stated without the handlers' date arithmetic: the start  *)
(* of the current period is the latest period boundary not after t.        *)
(***************************************************************************)
IsBoundary(p, u) ==
  /\ u % TicksPerDay = 0
  /\ p = "weekly" => DayOf(u) % 7 = 1
  /\ p = "monthly" => \E i \in 1..Len(MonthFirstDay) : DayOf(u) = MonthFirstDay[i]

PeriodBoundary(p, t) ==
  CHOOSE u \in 0..t : IsBoundary(p, u) /\ \A w \in (u + 1)..t : ~IsBoundary(p, w)

\* facts about the most recent check, from its recorded inputs
Checked == lastCheck.model # "none"
Metered == Checked /\ lastCheck.limit # NoLimit
LcExpired == lastCheck.limit.expireAt # Null /\ lastCheck.t > lastCheck.limit.expireAt
LcTotalOut == lastCheck.limit.total # Null /\ lastCheck.pre.totalUsed >= lastCheck.limit.total
LcPeriodic == lastCheck.limit.period # "none" /\ lastCheck.limit.periodLimit # Null
LcNewPeriod ==
  LcPeriodic /\ lastCheck.pre.lastReset < PeriodBoundary(lastCheck.limit.period, lastCheck.t)
LcPeriodOut ==
  /\ LcPeriodic
  /\ (IF LcNewPeriod THEN 0 ELSE lastCheck.pre.periodUsed) >= lastCheck.limit.periodLimit

(***************************************************************************)
(* Claims about the quota check.                                           *)
(***************************************************************************)
TotalOnlyLimit(l) ==
  /\ l.kind = "obj" /\ l.total # Null /\ l.total >= 0
  /\ l.period = "none" /\ l.periodLimit = Null /\ l.expireAt = Null

StartsAtZero(u) == u \in {AbsentUsage, ObjUsage(0, 0, 0)}

\* C1: with a limit {total: N} and usage starting at 0, exactly the first N
\* checks for the model are admitted; every later one is rejected with
\* total_exceeded reporting totalUsed = N, and totalUsed never exceeds N.
C1_TotalCap ==
  \A m \in ModelIds :
    (TotalOnlyLimit(route.modelLimits[m]) /\ StartsAtZero(usageInit[m])) =>
      LET N == route.modelLimits[m].total
          used == normalizeUsageEntry(route.modelUsage[m]).totalUsed
      IN  /\ admits[m] = Min(checks[m], N)
          /\ used = admits[m]
          /\ used <= N
          /\ lastCheck.model = m =>
               /\ lastCheck.res.allowed <=> checks[m] <= N
               /\ ~lastCheck.res.allowed =>
                    /\ lastCheck.res.reason = "total_exceeded"
                    /\ lastCheck.res.totalUsed = N

C1_Witness ==
  /\ TotalOnlyLimit(route.modelLimits["m1"]) /\ StartsAtZero(usageInit["m1"])
  /\ route.modelLimits["m1"].total = 2
  /\ checks["m1"] = 3 /\ admits["m1"] = 2
  /\ lastCheck.model = "m1" /\ lastCheck.res.reason = "total_exceeded"

\* C3: the rejection tests are made in the order expiry, total, period.
C3_RejectionOrder ==
  Metered =>
    /\ LcExpired => lastCheck.res.reason = "expired"
    /\ (~LcExpired /\ LcTotalOut) => lastCheck.res.reason = "total_exceeded"
    /\ lastCheck.res.reason = "period_exceeded" =>
         (~LcExpired /\ ~LcTotalOut /\ LcPeriodOut)
    /\ lastCheck.res.reason = "expired" => LcExpired
    /\ lastCheck.res.reason = "total_exceeded" => LcTotalOut

C3_Witness ==
  /\ Metered /\ ~LcExpired /\ LcTotalOut /\ LcPeriodOut
  /\ lastCheck.res.reason = "total_exceeded"

\* C4 (as amended): when a period and a periodLimit are configured, the limit
\* has not expired and lastReset is earlier than the start of the current
\* period, the check compares a period counter of 0: it rejects with
\* total_exceeded when total is exhausted, with period_exceeded (periodUsed 0)
\* when periodLimit is 0, and otherwise admits and stores periodUsed = 1,
\* lastReset = period start and totalUsed one more than before (never reset).
C4_Rollover ==
  (Metered /\ LcNewPeriod /\ ~LcExpired) =>
    LET start == PeriodBoundary(lastCheck.limit.period, lastCheck.t)
    IN  IF LcTotalOut
          THEN lastCheck.res.reason = "total_exceeded" /\ lastCheck.post = lastCheck.pre
        ELSE IF lastCheck.limit.periodLimit = 0
          THEN /\ lastCheck.res.reason = "period_exceeded"
               /\ lastCheck.res.periodUsed = 0
               /\ lastCheck.post = lastCheck.pre
        ELSE /\ lastCheck.res.allowed
             /\ lastCheck.post = [totalUsed |-> lastCheck.pre.totalUsed + 1,
                                  periodUsed |-> 1, lastReset |-> start]

C4_Witness ==
  /\ Metered /\ LcNewPeriod /\ ~LcExpired
  /\ lastCheck.prevPE # Null
  /\ lastCheck.pre.periodUsed >= lastCheck.limit.periodLimit
  /\ lastCheck.pre.totalUsed > 0
  /\ lastCheck.res.allowed

\* C4 (as stated): a model that was period_exceeded in an earlier period is
\* admitted in the new one as long as total is not exhausted.
C4_AsStated ==
  (/\ Checked /\ lastCheck.limit.period # "none"
   /\ lastCheck.prevPE # Null
   /\ lastCheck.prevPE < PeriodBoundary(lastCheck.limit.period, lastCheck.t)
   /\ ~LcTotalOut)
    => lastCheck.res.allowed

\* C5 (as amended): an admitted check on a metered model adds exactly 1 to
\* totalUsed; with a period and a periodLimit configured periodUsed becomes 1
\* when the check rolled the period over and grows by 1 otherwise, and
\* without a periodLimit it is left alone; the new entry is in the route
\* record, is what the check reports, and is on disk when the save succeeded.
C5_Commit ==
  (Metered /\ lastCheck.res.allowed) =>
    /\ lastCheck.post.totalUsed = lastCheck.pre.totalUsed + 1
    /\ lastCheck.post.periodUsed =
         (IF LcNewPeriod THEN 1
          ELSE IF LcPeriodic THEN lastCheck.pre.periodUsed + 1
          ELSE lastCheck.pre.periodUsed)
    /\ lastCheck.res.totalUsed = lastCheck.post.totalUsed
    /\ lastCheck.res.periodUsed = lastCheck.post.periodUsed
    /\ route.modelUsage[lastCheck.model].kind = "obj"
    /\ normalizeUsageEntry(route.modelUsage[lastCheck.model]) = lastCheck.post
    /\ lastCheck.saveOk => disk = route.modelUsage

C5_Witness ==
  /\ Metered /\ lastCheck.res.allowed /\ LcPeriodic /\ ~LcNewPeriod
  /\ lastCheck.post.periodUsed = lastCheck.pre.periodUsed + 1
  /\ lastCheck.saveOk /\ disk = route.modelUsage

\* C5 (as stated): every admitted check adds exactly 1 to totalUsed and, when
\* a period is configured, exactly 1 to periodUsed, and the new usage is
\* persisted before the check returns.
C5_AsStated ==
  (Metered /\ lastCheck.res.allowed) =>
    /\ lastCheck.post.totalUsed = lastCheck.pre.totalUsed + 1
    /\ lastCheck.limit.period # "none" =>
         lastCheck.post.periodUsed = lastCheck.pre.periodUsed + 1
    /\ disk = route.modelUsage

(***************************************************************************)
(* Claims about the handlers' admission prefix.                            *)
(***************************************************************************)
Arrived(r) == reqs[r].pc # "new"

\* a well-formed request on the non-master route
RouteRequest(r) ==
  Arrived(r) /\ ~reqs[r].master /\ reqs[r].hasMessages /\ reqs[r].model # ""

\* the model a name stands for on the route, read off the stored alias map
Target(name) == IF name \in DOMAIN route.aliases THEN route.aliases[name] ELSE name

MeteredModel(k) == route.modelLimits[k] # AbsentLimit

\* requests the quota check let through for the metered model k
DebitedTo(k) ==
  {r \in ReqIds : RouteRequest(r) /\ reqs[r].quota = "allowed"
                  /\ Target(reqs[r].model) = k /\ MeteredModel(k)}

C6_CommitAtAdmission ==
  \A r \in ReqIds :
    (RouteRequest(r) /\ reqs[r].quota = "allowed" /\ MeteredModel(reqs[r].checked)) =>
      /\ reqs[r].pc \in {"token", "codex", "upstream", "done"}
      /\ normalizeUsageEntry(route.modelUsage[reqs[r].checked]).totalUsed =
           Cardinality({q \in ReqIds : /\ reqs[q].quota = "allowed"
                                       /\ reqs[q].checked = reqs[r].checked})

C6_Witness ==
  \E r \in ReqIds :
    /\ RouteRequest(r) /\ reqs[r].quota = "allowed" /\ MeteredModel(reqs[r].checked)
    /\ reqs[r].pc = "done" /\ reqs[r].status = 500 /\ reqs[r].gone
    /\ reqs[r].sent = "none"
    /\ normalizeUsageEntry(route.modelUsage[reqs[r].checked]).totalUsed = 1

(***************************************************************************)
(* Claims about the credential stores.                                     *)
(***************************************************************************)
DoneCalls == {c \in CallIds : calls[c].pc = "done"}

\* ids of the enabled accounts, in list order
EnabledIds ==
  LET en == SelectSeq(accounts, LAMBDA a : a.enable)
  IN  [k \in DOMAIN en |-> en[k].id]

\* no call has had to refresh the account it selected
NoRefreshNeeded == \A c \in CallIds : calls[c].attempts = 0

\* the account call c selected last was stale when it was selected: its
\* expiry was at or before that instant plus ten minutes
SelStale(c) ==
  /\ calls[c].selExpires # Null
  /\ calls[c].selExpires <= calls[c].selAt + 10 * 60 * 1000

Yielded(c) == calls[c].pc = "done" /\ calls[c].result \notin {"null", "error", "none"}

\* C7: as long as no selected account needs a refresh, the k-th getToken
\* call returns the enabled account in slot (k - 1) mod N of the list with
\* the disabled accounts left out, so after a multiple of N calls every
\* enabled account has been returned equally often and no disabled one ever.
C7_RoundRobin ==
  NoRefreshNeeded =>
    LET N == Len(EnabledIds)
        M == Cardinality(DoneCalls)
    IN  /\ \A c \in DoneCalls :
             calls[c].result = IF N = 0 THEN "null" ELSE EnabledIds[((c - 1) % N) + 1]
        /\ (N > 0 /\ M % N = 0) =>
             \A i \in DOMAIN accounts :
               Cardinality({c \in DoneCalls : calls[c].result = accounts[i].id})
                 = IF accounts[i].enable THEN M \div N ELSE 0

C7_Witness ==
  /\ NoRefreshNeeded
  /\ {1, 2, 3} \subseteq DoneCalls
  /\ Len(accounts) = 3 /\ Len(EnabledIds) = 2
  /\ calls[1].result = "a1" /\ calls[2].result = "a3" /\ calls[3].result = "a1"

\* C8 (amended): an OAuth account that was stale when getToken selected it
\* is yielded only after a successful refresh in that call.
C8_StaleOAuthRefreshed ==
  \A c \in CallIds :
    (Yielded(c) /\ SelStale(c) /\ calls[c].selAuth = "oauth") => calls[c].refreshed

C8_Witness ==
  \E c \in CallIds :
    /\ Yielded(c) /\ SelStale(c) /\ calls[c].selAuth = "oauth" /\ calls[c].refreshed
    /\ tmKind = "codex"

\* C8 as stated: any account that was stale when selected is yielded only
\* after a successful refresh in that call.
C8_AsStated ==
  \A c \in CallIds : (Yielded(c) /\ SelStale(c)) => calls[c].refreshed

\* C9: within one getToken call the number of refresh attempts never
\* exceeds the number of enabled accounts.
C9_AttemptsBounded ==
  \A c \in CallIds : calls[c].attempts <= Len(EnabledIds)

\* C10: when refreshToken returns the account after its save, the accounts
\* file holds that account with the access material it now carries.
C10_SavedBeforeReturn ==
  [][\A c \in CallIds :
       (calls[c].pc = "saving" /\ calls'[c].pc = "done" /\ calls'[c].refreshed) =>
         \E i \in DOMAIN file' :
           /\ file'[i].id = held(c).id
           /\ file'[i].access_token = held(c).access_token]_vars

\* the staleness test of the store at hand
storeIsExpired(account) ==
  IF tmKind = "codex" THEN isExpired(account, now) ELSE kiroIsExpired(account, now)

\* C11: an account without a refresh token is never reported expired, and
\* refreshToken is never called for it.
C11_NoRefreshTokenNeverStale ==
  /\ \A i \in DOMAIN accounts :
       ~accounts[i].refresh_token => ~storeIsExpired(accounts[i])
  /\ \A c \in CallIds : calls[c].pc # "rejected"

\* C12: no two calls in flight are waiting for the token endpoint to
\* refresh the same account.
C12_OneRefreshPerAccount ==
  \A c, d \in CallIds :
    (c # d /\ calls[c].pc = "refreshing" /\ calls[d].pc = "refreshing")
      => held(c).id # held(d).id

\* ---------------------------------------------------------------------------
\* The Claude handler's response code (server/handlers/claude.js)
\* ---------------------------------------------------------------------------

\* upstream events one response may deliver to the handler's callback
MaxEvents == 4

\* argument texts a tool call may carry
ArgTexts == {"{\"q\":1}", "{q"}

\* JSON.parse on an argument text: the texts that parse, the others throw
parses(text) == text \in {"{}", "{\"q\":1}"}

ToolCall(id, arguments) == [id |-> id, arguments |-> arguments]

\* the tool_calls arrays an upstream event (or a collected response) may carry
ToolCallLists ==
  { <<ToolCall("t1", "{\"q\":1}")>>,
    <<ToolCall("t1", "{q")>>,
    <<ToolCall("t1", "{\"q\":1}"), ToolCall("t2", "{q")>> }

\* what the upstream client hands to the callback
UpstreamEvents ==
  { [type |-> t, tool_calls |-> << >>] : t \in {"usage", "reasoning", "text"} }
    \cup { [type |-> "tool_calls", tool_calls |-> l] : l \in ToolCallLists }

\* one write to the response
Ev(event, index, kind, id, info) ==
  [event |-> event, index |-> index, kind |-> kind, id |-> id, info |-> info]

\* the locals at the head of the streaming branch
NewStream ==
  [pc |-> "new", contentIndex |-> 0, usageData |-> FALSE, hasToolCall |-> FALSE,
   currentBlockType |-> "null", reasoningSent |-> FALSE]

\* the callback's branch for a reasoning delta
onReasoning(s) ==
  [s |-> IF s.reasoningSent THEN s
         ELSE [s EXCEPT !.currentBlockType = "thinking", !.reasoningSent = TRUE],
   w |-> (IF s.reasoningSent THEN << >>
          ELSE <<Ev("content_block_start", s.contentIndex, "thinking", "", "")>>)
         \o <<Ev("content_block_delta", s.contentIndex, "thinking_delta", "", "")>>]

\* the loop over the tool calls of one event: what it writes from index on,
\* and the index it leaves
RECURSIVE toolBlocks(_, _)
toolBlocks(tcs, index) ==
  IF tcs = << >> THEN [w |-> << >>, contentIndex |-> index]
  ELSE IF parses(Head(tcs).arguments)
  THEN LET rest == toolBlocks(Tail(tcs), index + 1) IN
       [w |-> <<Ev("content_block_start", index, "tool_use", Head(tcs).id,
                   Head(tcs).arguments),
                Ev("content_block_delta", index, "input_json_delta", "",
                   Head(tcs).arguments),
                Ev("content_block_stop", index, "", "", "")>> \o rest.w,
        contentIndex |-> rest.contentIndex]
  ELSE toolBlocks(Tail(tcs), index)

onToolCallsNoClose(s, tcs) ==
  LET loop == toolBlocks(tcs, s.contentIndex) IN
  [s |-> [s EXCEPT !.hasToolCall = TRUE, !.contentIndex = loop.contentIndex,
                   !.currentBlockType = "null"],
   w |-> loop.w]

\* the callback's branch for a tool_calls event
onToolCalls(s, tcs) ==
  LET open == s.currentBlockType # "null"
      from == IF open THEN s.contentIndex + 1 ELSE s.contentIndex
      loop == toolBlocks(tcs, from) IN
  [s |-> [s EXCEPT !.hasToolCall = TRUE, !.contentIndex = loop.contentIndex,
                   !.currentBlockType = "null"],
   w |-> (IF open THEN <<Ev("content_block_stop", s.contentIndex, "", "", "")>>
          ELSE << >>) \o loop.w]

onTextNoClose(s) ==
  [s |-> [s EXCEPT !.currentBlockType = "text"],
   w |-> (IF s.currentBlockType # "text"
          THEN <<Ev("content_block_start", s.contentIndex, "text", "", "")>>
          ELSE << >>)
         \o <<Ev("content_block_delta", s.contentIndex, "text_delta", "", "")>>]

\* the callback's branch for a plain content delta
onText(s) ==
  LET thinking == s.currentBlockType = "thinking"
      index == IF thinking THEN s.contentIndex + 1 ELSE s.contentIndex IN
  [s |-> [s EXCEPT !.contentIndex = index, !.currentBlockType = "text"],
   w |-> (IF thinking THEN <<Ev("content_block_stop", s.contentIndex, "", "", "")>>
          ELSE << >>)
         \o (IF s.currentBlockType # "text"
             THEN <<Ev("content_block_start", index, "text", "", "")>>
             ELSE << >>)
         \o <<Ev("content_block_delta", index, "text_delta", "", "")>>]

\* the callback handed to generateAssistantResponse
callback(s, data) ==
  IF data.type = "usage" THEN [s |-> [s EXCEPT !.usageData = TRUE], w |-> << >>]
  ELSE IF data.type = "reasoning" THEN onReasoning(s)
  ELSE IF data.type = "tool_calls" THEN onToolCalls(s, data.tool_calls)
  ELSE onText(s)

\* what follows the relay: the last block's stop, message_delta, message_stop
closing(s) ==
  (IF s.currentBlockType # "null"
   THEN <<Ev("content_block_stop", s.contentIndex, "", "", "")>> ELSE << >>)
  \o <<Ev("message_delta", Null, "", "",
          IF s.hasToolCall THEN "tool_use" ELSE "end_turn"),
       Ev("message_stop", Null, "", "", "")>>

\* the content blocks of a collected response
RECURSIVE toolUseBlocks(_)
toolUseBlocks(toolCalls) ==
  IF toolCalls = << >> THEN << >>
  ELSE <<Ev("block", Null, "tool_use", Head(toolCalls).id,
            IF parses(Head(toolCalls).arguments)
            THEN Head(toolCalls).arguments ELSE "{}")>>
       \o toolUseBlocks(Tail(toolCalls))

createClaudeResponse(content, reasoning, toolCalls, stopReason) ==
  (IF reasoning THEN <<Ev("block", Null, "thinking", "", "")>> ELSE << >>)
  \o (IF content THEN <<Ev("block", Null, "text", "", "")>> ELSE << >>)
  \o toolUseBlocks(toolCalls)
  \o <<Ev("stop_reason", Null, "", "", stopReason)>>

idleVars == <<quotaVars, reqs, tokVars, provVars, moreVars>>

InitStream ==
  /\ now = 0
  /\ QuotaIdle
  /\ TokIdle
  /\ ProvIdle
  /\ MoreIdle
  /\ strm = NewStream
  /\ out = << >>
  /\ ups = << >>

\* the streaming branch up to its first await: message_start is written
ClaudeStream(isImageModel) ==
  /\ strm.pc = "new"
  /\ strm' = [strm EXCEPT !.pc = IF isImageModel THEN "image" ELSE "relay"]
  /\ out' = <<Ev("message_start", Null, "", "", "")>>
  /\ UNCHANGED <<ups, idleVars>>

\* the upstream client calls the callback with one event
Callback(data) ==
  /\ strm.pc = "relay"
  /\ Len(ups) < MaxEvents
  /\ strm' = callback(strm, data).s
  /\ out' = out \o callback(strm, data).w
  /\ ups' = Append(ups, data)
  /\ UNCHANGED idleVars

\* the relay resolves: the stream is closed
StreamEnd ==
  /\ strm.pc = "relay"
  /\ strm' = [strm EXCEPT !.pc = "done"]
  /\ out' = out \o closing(strm)
  /\ UNCHANGED <<ups, idleVars>>

\* the collected response of an image model is sent as one text block
ImageResult ==
  /\ strm.pc = "image"
  /\ strm' = [strm EXCEPT !.pc = "done"]
  /\ out' = out \o <<Ev("content_block_start", 0, "text", "", ""),
                     Ev("content_block_delta", 0, "text_delta", "", ""),
                     Ev("content_block_stop", 0, "", "", ""),
                     Ev("message_delta", Null, "", "", "end_turn"),
                     Ev("message_stop", Null, "", "", "")>>
  /\ ups' = <<[type |-> "text", tool_calls |-> << >>]>>
  /\ UNCHANGED idleVars

\* the upstream call rejects while the stream is open: an error event ends it
StreamFail ==
  /\ strm.pc \in {"relay", "image"}
  /\ strm' = [strm EXCEPT !.pc = "failed"]
  /\ out' = Append(out, Ev("error", Null, "", "", ""))
  /\ UNCHANGED <<ups, idleVars>>

\* the non-streaming branch: the collected response is sent as one message
ClaudeJson(content, reasoning, toolCalls) ==
  /\ strm.pc = "new"
  /\ strm' = [strm EXCEPT !.pc = "json"]
  /\ out' = createClaudeResponse(content, reasoning, toolCalls,
              IF Len(toolCalls) > 0 THEN "tool_use" ELSE "end_turn")
  /\ ups' = (IF reasoning THEN <<[type |-> "reasoning", tool_calls |-> << >>]>>
             ELSE << >>)
            \o (IF content THEN <<[type |-> "text", tool_calls |-> << >>]>>
                ELSE << >>)
            \o (IF toolCalls # << >>
                THEN <<[type |-> "tool_calls", tool_calls |-> toolCalls]>>
                ELSE << >>)
  /\ UNCHANGED idleVars

\* the non-streaming upstream call rejects: the error payload is the response
JsonFail ==
  /\ strm.pc = "new"
  /\ strm' = [strm EXCEPT !.pc = "failed"]
  /\ out' = <<Ev("error", Null, "", "", "")>>
  /\ UNCHANGED <<ups, idleVars>>

NextStream ==
  \/ \E isImageModel \in BOOLEAN : ClaudeStream(isImageModel)
  \/ \E data \in UpstreamEvents : Callback(data)
  \/ StreamEnd
  \/ ImageResult
  \/ StreamFail
  \/ \E content, reasoning \in BOOLEAN, toolCalls \in ToolCallLists \cup {<< >>} :
       ClaudeJson(content, reasoning, toolCalls)
  \/ JsonFail

SpecStream == InitStream /\ [][NextStream]_vars

\* ---------------------------------------------------------------------------
\* Claims about the Claude stream
\* ---------------------------------------------------------------------------

\* positions of the output holding a given event
At(event) == {i \in DOMAIN out : out[i].event = event}

Starts == At("content_block_start")

\* a stop for the block started at position i was written before position j
StoppedBetween(i, j) ==
  \E k \in At("content_block_stop") : i < k /\ k < j /\ out[k].index = out[i].index

\* the handler is (or was) relaying a stream of upstream events
Relaying == strm.pc \in {"relay", "done", "failed"} /\ out # << >>

Rank(data) ==
  CASE data.type = "reasoning" -> 1
    [] data.type = "text" -> 2
    [] data.type = "tool_calls" -> 3
    [] OTHER -> 0

\* the upstream events so far are reasoning deltas, then text deltas, then at
\* most one tool-call event (usage reports aside)
ReasoningTextTool ==
  /\ \A i, j \in DOMAIN ups :
       (i < j /\ Rank(ups[j]) # 0) => Rank(ups[i]) <= Rank(ups[j])
  /\ Cardinality({i \in DOMAIN ups : ups[i].type = "tool_calls"}) <= 1

\* C13: for reasoning deltas, then text deltas, then a tool-call event, no two
\* content_block_start events carry the same index, and none is written while
\* an earlier block has not been stopped.
C13_BlockDiscipline ==
  ReasoningTextTool =>
    \A i, j \in Starts :
      i < j => (out[i].index # out[j].index /\ StoppedBetween(i, j))

C13_Witness ==
  /\ strm.pc = "done"
  /\ ReasoningTextTool
  /\ \E i, j, k \in DOMAIN ups :
       /\ i < j /\ j < k
       /\ ups[i].type = "reasoning" /\ ups[j].type = "text"
       /\ ups[k].type = "tool_calls"
  /\ Cardinality(Starts) >= 3

ThinkingStarts == {i \in Starts : out[i].kind = "thinking"}

\* C14: the first reasoning delta opens the thinking block, and no other block
\* is started after it until its content_block_stop has been written.
C14_ThinkingClosedFirst ==
  Relaying =>
    /\ Cardinality(ThinkingStarts) =
         (IF \E i \in DOMAIN ups : ups[i].type = "reasoning" THEN 1 ELSE 0)
    /\ \A i \in ThinkingStarts :
         /\ i < Len(out) /\ out[i + 1].kind = "thinking_delta"
         /\ Cardinality({k \in DOMAIN out : k < i /\ out[k].kind = "thinking_delta"}) = 0
         /\ \A j \in Starts : i < j => StoppedBetween(i, j)

C14_Witness ==
  /\ strm.pc = "done"
  /\ \E i \in ThinkingStarts : \E j \in Starts : i < j /\ out[j].kind = "tool_use"
  /\ \E i \in DOMAIN ups : i > 1 /\ ups[i].type = "reasoning" /\ ups[i - 1].type = "text"

\* C15: a stream that completes ends with message_delta then message_stop,
\* every block that was started has been stopped by then, and stop_reason is
\* tool_use exactly when a tool-call event occurred.
C15_EndsClosed ==
  (strm.pc = "done") =>
    /\ Len(out) >= 2
    /\ out[Len(out) - 1].event = "message_delta"
    /\ out[Len(out)].event = "message_stop"
    /\ \A n \in 0..(MaxEvents + MaxEvents) :
         Cardinality({i \in Starts : out[i].index = n})
           = Cardinality({k \in At("content_block_stop") : out[k].index = n})
    /\ out[Len(out) - 1].info =
         (IF \E i \in DOMAIN ups : ups[i].type = "tool_calls"
          THEN "tool_use" ELSE "end_turn")

\* the tool calls upstream delivered, in order
RECURSIVE received(_)
received(events) ==
  IF events = << >> THEN << >>
  ELSE Head(events).tool_calls \o received(Tail(events))

\* the tool_use blocks of the output, in order
RECURSIVE toolUses(_)
toolUses(w) ==
  IF w = << >> THEN << >>
  ELSE (IF w[1].kind = "tool_use" THEN <<w[1]>> ELSE << >>) \o toolUses(Tail(w))

\* C16: every tool call received gives one tool_use block, with an empty
\* input when its arguments do not parse, in both kinds of response.
C16_OneBlockPerToolCall ==
  (strm.pc \in {"done", "json"}) =>
    /\ Len(toolUses(out)) = Len(received(ups))
    /\ \A n \in DOMAIN toolUses(out) :
         /\ toolUses(out)[n].id = received(ups)[n].id
         /\ toolUses(out)[n].info =
              (IF parses(received(ups)[n].arguments)
               THEN received(ups)[n].arguments ELSE "{}")
    /\ \A i \in Starts : out[i].kind = "tool_use" =>
         /\ out[i + 1].kind = "input_json_delta" /\ out[i + 1].index = out[i].index
         /\ out[i + 2].event = "content_block_stop" /\ out[i + 2].index = out[i].index

\* C17: the content_block_start events carry 0, 1, 2, ... in the order
\* written, and each delta and stop carries the index of the block it is in.
C17_IndicesInOrder ==
  /\ \A i \in Starts : out[i].index = Cardinality({j \in Starts : j < i})
  /\ \A k \in At("content_block_delta") \cup At("content_block_stop") :
       /\ \E i \in Starts : i < k
       /\ \A i \in Starts :
            (i < k /\ \A j \in Starts : j < k => j <= i) => out[k].index = out[i].index
       /\ out[k].event = "content_block_delta" =>
            \A i \in Starts : i < k /\ out[i].index = out[k].index => ~StoppedBetween(i, k)

\* ---------------------------------------------------------------------------
\* The provider dispatcher (providers/index.js, providers/base.js)
\* ---------------------------------------------------------------------------

\* handleChat calls made to the dispatcher
MaxChats == 1

\* a model name or a mapping pattern is the sequence of its characters
endsWithStar(pattern) == pattern # << >> /\ pattern[Len(pattern)] = "*"

\* pattern.slice(0, -1)
slice(pattern) == SubSeq(pattern, 1, Len(pattern) - 1)

startsWith(model, prefix) ==
  Len(prefix) <= Len(model) /\ SubSeq(model, 1, Len(prefix)) = prefix

\* the model names a request may carry; the empty one is falsy
ModelNames == { << >>, <<"g", "a">>, <<"g", "b">>, <<"x">> }

\* BaseProvider's constructor
BaseProvider(name, enabled, priority, supportedModels) ==
  [name |-> name, enabled |-> enabled, priority |-> priority,
   initialized |-> FALSE, supportedModels |-> supportedModels,
   stats |-> [totalRequests |-> 0, successRequests |-> 0, failedRequests |-> 0]]

\* the provider objects a client may register
ProviderInstances ==
  { BaseProvider("antigravity", e, 1, << <<"g", "a">>, <<"g", "*">> >>) : e \in BOOLEAN }
    \cup { BaseProvider("codex", e, 3, << <<"c", "a">>, <<"g", "a">> >>) : e \in BOOLEAN }

\* routing.modelProviderMapping of the configuration file, in key order; a
\* value is one provider name or an array of names
CustomMappings ==
  { << >>,
    << [pattern |-> <<"g", "a">>, value |-> [array |-> <<"codex", "antigravity">>]] >>,
    << [pattern |-> <<"g", "*">>, value |-> [name |-> "codex"]],
       [pattern |-> <<"g", "a">>, value |-> [array |-> <<"ghost", "antigravity">>]] >>,
    << [pattern |-> <<"*">>, value |-> [name |-> "codex"]] >> }

\* BaseProvider.supportsModel
supportsModel(provider, model) ==
  /\ model # << >>
  /\ \E i \in DOMAIN provider.supportedModels :
       \/ provider.supportedModels[i] = model
       \/ /\ endsWithStar(provider.supportedModels[i])
          /\ startsWith(model, slice(provider.supportedModels[i]))

\* Map.has / Map.get on ProviderManager.providers
hasProvider(name) == \E i \in DOMAIN providers : providers[i].name = name

getProvider(name) == providers[CHOOSE i \in DOMAIN providers : providers[i].name = name]

\* Map.set: a known key keeps its place, a new one goes last
mapSet(m, key, entry) ==
  IF \E i \in DOMAIN m : m[i][key[1]] = key[2]
  THEN [i \in DOMAIN m |-> IF m[i][key[1]] = key[2] THEN entry ELSE m[i]]
  ELSE Append(m, entry)

eligibleEnabledOnly(provider) == provider.enabled

\* the test selectProvider and getEnabledProviders apply to a provider
eligible(provider) == provider.enabled /\ provider.initialized

\* Array.prototype.sort with (a, b) => a.priority - b.priority, which is stable
RECURSIVE sortByPriority(_)
sortByPriority(list) ==
  IF list = << >> THEN << >>
  ELSE LET rest == sortByPriority(SubSeq(list, 1, Len(list) - 1))
           last == list[Len(list)]
           before == SelectSeq(rest, LAMBDA q : q.priority <= last.priority)
           after == SelectSeq(rest, LAMBDA q : q.priority > last.priority)
       IN before \o <<last>> \o after

getEnabledProvidersUnsorted(list) == SelectSeq(list, eligible)

\* ProviderManager.getEnabledProviders
getEnabledProviders(list) == sortByPriority(SelectSeq(list, eligible))

\* the default entries buildModelMapping adds for one provider's models
RECURSIVE defaultEntries(_, _, _)
defaultEntries(mapping, name, models) ==
  IF models = << >> THEN mapping
  ELSE defaultEntries(
         IF \E i \in DOMAIN mapping : mapping[i].pattern = Head(models)
         THEN mapping
         ELSE Append(mapping, [pattern |-> Head(models), providers |-> <<name>>]),
         name, Tail(models))

RECURSIVE defaultMapping(_, _)
defaultMapping(mapping, list) ==
  IF list = << >> THEN mapping
  ELSE defaultMapping(
         IF Head(list).enabled
         THEN defaultEntries(mapping, Head(list).name, Head(list).supportedModels)
         ELSE mapping,
         Tail(list))

RECURSIVE customEntries(_, _)
customEntries(mapping, custom) ==
  IF custom = << >> THEN mapping
  ELSE customEntries(
         mapSet(mapping, <<"pattern", Head(custom).pattern>>,
                [pattern |-> Head(custom).pattern,
                 providers |-> IF "array" \in DOMAIN Head(custom).value
                               THEN Head(custom).value.array
                               ELSE <<Head(custom).value.name>>]),
         Tail(custom))

\* ProviderManager.buildModelMapping
buildModelMapping(custom, list) == defaultMapping(customEntries(<< >>, custom), list)

\* the first listed name that is registered, enabled and initialized
RECURSIVE firstEligible(_)
firstEligible(names) ==
  IF names = << >> THEN "none"
  ELSE IF hasProvider(Head(names)) /\ eligible(getProvider(Head(names)))
  THEN Head(names)
  ELSE firstEligible(Tail(names))

\* step 1 of selectProvider: the entry whose key is the model
exactMatch(model) ==
  IF \E i \in DOMAIN modelProviderMapping : modelProviderMapping[i].pattern = model
  THEN firstEligible(
         modelProviderMapping[CHOOSE i \in DOMAIN modelProviderMapping :
                                modelProviderMapping[i].pattern = model].providers)
  ELSE "none"

\* step 2 of selectProvider: the entries ending in * from position i on
RECURSIVE wildcardMatch(_, _)
wildcardMatch(model, i) ==
  IF i > Len(modelProviderMapping) THEN "none"
  ELSE IF /\ endsWithStar(modelProviderMapping[i].pattern)
          /\ startsWith(model, slice(modelProviderMapping[i].pattern))
          /\ firstEligible(modelProviderMapping[i].providers) # "none"
  THEN firstEligible(modelProviderMapping[i].providers)
  ELSE wildcardMatch(model, i + 1)

\* step 3 of selectProvider: the first of the list that supports the model
RECURSIVE supportsScan(_, _)
supportsScan(list, model) ==
  IF list = << >> THEN "none"
  ELSE IF supportsModel(Head(list), model) THEN Head(list).name
  ELSE supportsScan(Tail(list), model)

Picked(name, via) == [provider |-> name, via |-> via]

selectProviderWildcardFirst(model) ==
  LET enabledProviders == getEnabledProviders(providers) IN
  IF model = << >> THEN Picked("none", "none")
  ELSE IF wildcardMatch(model, 1) # "none"
  THEN Picked(wildcardMatch(model, 1), "wildcard")
  ELSE IF exactMatch(model) # "none" THEN Picked(exactMatch(model), "exact")
  ELSE IF supportsScan(enabledProviders, model) # "none"
  THEN Picked(supportsScan(enabledProviders, model), "supports")
  ELSE IF Len(enabledProviders) > 0 THEN Picked(enabledProviders[1].name, "fallback")
  ELSE Picked("none", "none")

\* ProviderManager.selectProvider: the provider returned and the step that
\* returned it
selectProvider(model) ==
  LET enabledProviders == getEnabledProviders(providers) IN
  IF model = << >> THEN Picked("none", "none")
  ELSE IF exactMatch(model) # "none" THEN Picked(exactMatch(model), "exact")
  ELSE IF wildcardMatch(model, 1) # "none"
  THEN Picked(wildcardMatch(model, 1), "wildcard")
  ELSE IF supportsScan(enabledProviders, model) # "none"
  THEN Picked(supportsScan(enabledProviders, model), "supports")
  ELSE IF Len(enabledProviders) > 0 THEN Picked(enabledProviders[1].name, "fallback")
  ELSE Picked("none", "none")

\* BaseProvider.recordRequest
recordRequest(provider, success) ==
  [provider EXCEPT !.stats.totalRequests = @ + 1,
                   !.stats.successRequests = IF success THEN @ + 1 ELSE @,
                   !.stats.failedRequests = IF success THEN @ ELSE @ + 1]

NoChat == [n |-> 0, model |-> << >>, provider |-> "none", via |-> "none",
           outcome |-> "none"]

InitProv ==
  /\ now = 0
  /\ QuotaIdle
  /\ TokIdle
  /\ StreamIdle
  /\ MoreIdle
  /\ providers = << >>
  /\ modelProviderMapping = << >>
  /\ \E custom \in CustomMappings :
       pm = [initialized |-> FALSE, pending |-> {}, initializing |-> FALSE,
             config |-> custom, chat |-> NoChat]

provRest == <<quotaVars, reqs, tokVars, streamVars, moreVars>>

\* ProviderManager.register
Register(provider) ==
  /\ providers' = mapSet(providers, <<"name", provider.name>>, provider)
  /\ pm' = [pm EXCEPT !.pending = @ \ {provider.name}]
  /\ UNCHANGED <<modelProviderMapping, provRest>>

\* a provider is switched on or off
SetEnabled(name, enabled) ==
  /\ hasProvider(name)
  /\ getProvider(name).enabled # enabled
  /\ providers' = mapSet(providers, <<"name", name>>,
                         [getProvider(name) EXCEPT !.enabled = enabled])
  /\ UNCHANGED <<modelProviderMapping, pm, provRest>>

\* ProviderManager.initialize up to Promise.allSettled
InitializeBegin ==
  /\ ~pm.initialized
  /\ ~pm.initializing
  /\ pm' = [pm EXCEPT !.initializing = TRUE,
                      !.pending = {providers[i].name : i \in
                                     {j \in DOMAIN providers : providers[j].enabled}}]
  /\ UNCHANGED <<providers, modelProviderMapping, provRest>>

\* one provider's initialize() settles
ProviderInitialized(name, ok) ==
  /\ name \in pm.pending
  /\ pm' = [pm EXCEPT !.pending = @ \ {name}]
  /\ providers' = mapSet(providers, <<"name", name>>,
                         IF ok THEN [getProvider(name) EXCEPT !.initialized = TRUE]
                         ELSE [getProvider(name) EXCEPT !.enabled = FALSE])
  /\ UNCHANGED <<modelProviderMapping, provRest>>

\* ProviderManager.initialize after Promise.allSettled
InitializeEnd ==
  /\ pm.initializing
  /\ pm.pending = {}
  /\ modelProviderMapping' = buildModelMapping(pm.config, providers)
  /\ pm' = [pm EXCEPT !.initializing = FALSE, !.initialized = TRUE]
  /\ UNCHANGED <<providers, provRest>>

\* ProviderManager.reloadAll from its last await on: the reload() calls before
\* it touch the providers' token managers only
ReloadAll ==
  /\ modelProviderMapping' = buildModelMapping(pm.config, providers)
  /\ UNCHANGED <<providers, pm, provRest>>

\* ProviderManager.handleChat
HandleChat(model, stream, ok) ==
  LET sel == selectProvider(model) IN
  /\ pm.chat.n < MaxChats
  /\ pm' = [pm EXCEPT !.chat =
              [n |-> pm.chat.n + 1, model |-> model, provider |-> sel.provider,
               via |-> sel.via,
               outcome |-> IF sel.provider = "none" THEN "no_provider"
                           ELSE IF stream THEN "chatStream"
                           ELSE IF ok THEN "chat" ELSE "chat_failed"]]
  /\ providers' =
       IF sel.provider = "none" \/ stream THEN providers
       ELSE mapSet(providers, <<"name", sel.provider>>,
                   recordRequest(getProvider(sel.provider), ok))
  /\ UNCHANGED <<modelProviderMapping, provRest>>

NextProv ==
  \/ \E provider \in ProviderInstances : Register(provider)
  \/ \E name \in {"antigravity", "codex"}, enabled \in BOOLEAN :
       SetEnabled(name, enabled)
  \/ InitializeBegin
  \/ \E name \in {"antigravity", "codex"}, ok \in BOOLEAN :
       ProviderInitialized(name, ok)
  \/ InitializeEnd
  \/ ReloadAll
  \/ \E model \in ModelNames, stream, ok \in BOOLEAN : HandleChat(model, stream, ok)

SpecProv == InitProv /\ [][NextProv]_vars

\* ---------------------------------------------------------------------------
\* Claims about the provider dispatcher
\* ---------------------------------------------------------------------------

\* this step is a handleChat call
ChatStep == pm'.chat.n = pm.chat.n + 1

Registered(name) == \E i \in DOMAIN providers : providers[i].name = name

Named(name) == providers[CHOOSE i \in DOMAIN providers : providers[i].name = name]

Usable(name) == Registered(name) /\ Named(name).enabled /\ Named(name).initialized

UsableNames == {providers[i].name : i \in {j \in DOMAIN providers : Usable(providers[j].name)}}

\* the positions of entry e's list that name a usable provider
UsableAt(e) == {k \in DOMAIN e.providers : Usable(e.providers[k])}

FirstUsable(e) == e.providers[CHOOSE k \in UsableAt(e) : \A l \in UsableAt(e) : k <= l]

\* mapping entries whose key is the model, and whose key is a prefix pattern
\* of it
ExactEntries(model) ==
  {i \in DOMAIN modelProviderMapping : modelProviderMapping[i].pattern = model}

WildcardEntries(model) ==
  {i \in DOMAIN modelProviderMapping :
     LET pat == modelProviderMapping[i].pattern IN
     /\ pat # << >> /\ pat[Len(pat)] = "*"
     /\ Len(pat) - 1 <= Len(model)
     /\ \A k \in 1..(Len(pat) - 1) : model[k] = pat[k]}

Supports(name, model) ==
  \E i \in DOMAIN Named(name).supportedModels :
    LET pat == Named(name).supportedModels[i] IN
    \/ pat = model
    \/ /\ pat # << >> /\ pat[Len(pat)] = "*"
       /\ Len(pat) - 1 <= Len(model)
       /\ \A k \in 1..(Len(pat) - 1) : model[k] = pat[k]

Supporting(model) == {n \in UsableNames : Supports(n, model)}

LeastPriority(names) ==
  {n \in names : \A o \in names : Named(n).priority <= Named(o).priority}

\* C18: the first usable provider of the model's exact entry is returned
\* whatever else matches; failing that the first usable provider of the first
\* matching wildcard entry; failing that a supporting provider of least
\* priority number.
C18_FirstMatchWins ==
  [][ (ChatStep /\ pm'.chat.model # << >>) =>
        LET model == pm'.chat.model
            exact == {i \in ExactEntries(model) :
                        UsableAt(modelProviderMapping[i]) # {}}
            wild == {i \in WildcardEntries(model) :
                       UsableAt(modelProviderMapping[i]) # {}}
        IN IF exact # {}
           THEN \A i \in exact :
                  pm'.chat.provider = FirstUsable(modelProviderMapping[i])
           ELSE IF wild # {}
           THEN \A i \in wild : (\A j \in wild : i <= j) =>
                  pm'.chat.provider = FirstUsable(modelProviderMapping[i])
           ELSE Supporting(model) # {} =>
                  pm'.chat.provider \in LeastPriority(Supporting(model)) ]_vars

C18_Witness ==
  /\ pm.chat.n > 0
  /\ pm.chat.via = "exact"
  /\ \E i \in WildcardEntries(pm.chat.model) :
       /\ UsableAt(modelProviderMapping[i]) # {}
       /\ FirstUsable(modelProviderMapping[i]) # pm.chat.provider
  /\ \E n \in Supporting(pm.chat.model) :
       n # pm.chat.provider /\ Named(n).priority < Named(pm.chat.provider).priority

\* C19: the provider selectProvider returns is registered, enabled and
\* initialized at the time of the call.
C19_OnlyUsableReturned ==
  [][ (ChatStep /\ pm'.chat.provider # "none") => Usable(pm'.chat.provider) ]_vars

C19_Witness ==
  /\ pm.chat.n > 0
  /\ pm.chat.provider # "none"
  /\ \E i \in ExactEntries(pm.chat.model) :
       LET e == modelProviderMapping[i] IN
       /\ ~Registered(e.providers[1]) \/ ~Named(e.providers[1]).initialized
       /\ e.providers[1] # pm.chat.provider
  /\ \E i \in ExactEntries(pm.chat.model) \cup WildcardEntries(pm.chat.model) :
       LET e == modelProviderMapping[i] IN
       Registered(e.providers[1]) /\ ~Named(e.providers[1]).enabled

\* C20: a non-empty model that nothing matches goes to the usable provider of
\* least priority number; no provider is returned only when none is usable, and
\* handleChat then fails without calling a provider.
C20_FallbackOrFail ==
  [][ (ChatStep /\ pm'.chat.model # << >>) =>
        LET model == pm'.chat.model IN
        /\ ( /\ ExactEntries(model) = {}
             /\ WildcardEntries(model) = {}
             /\ \A i \in DOMAIN providers : ~Supports(providers[i].name, model)
             /\ UsableNames # {} )
             => pm'.chat.provider \in LeastPriority(UsableNames)
        /\ (pm'.chat.provider = "none") <=> (UsableNames = {})
        /\ (pm'.chat.provider = "none") =>
             (pm'.chat.outcome = "no_provider" /\ providers' = providers)
        /\ (pm'.chat.provider # "none") => pm'.chat.outcome # "no_provider" ]_vars

C20_Witness ==
  /\ pm.chat.n > 0
  /\ pm.chat.via = "fallback"
  /\ ExactEntries(pm.chat.model) = {}
  /\ WildcardEntries(pm.chat.model) = {}
  /\ Cardinality(UsableNames) = 2
  /\ providers[1].name # pm.chat.provider

C20_WitnessNone ==
  /\ pm.chat.n > 0
  /\ pm.chat.model # << >>
  /\ pm.chat.outcome = "no_provider"
  /\ providers # << >>

\* ---------------------------------------------------------------------------
\* The upstream call of a chat handler: retry on 429, heartbeat, error reply
\* (server/handlers/openai.js, server/handlers/claude.js, server/stream.js)
\* ---------------------------------------------------------------------------

\* the largest whole retry count the configuration is given
MaxRetries == 1

\* other.retryTimes of the configuration file, counted in halves so that
\* fractions are covered: -1, -0.5, 0, 0.5, 1, 1.5, ...
RetryTimesHalves == (0 - 2)..(MaxRetries + MaxRetries + 1)

\* safeRetries: Number(config.retryTimes || 0), floored when positive, else 0
safeRetries(halves) == IF halves > 0 THEN halves \div 2 ELSE 0

\* with429Retry: a failed call is made again when the error is a 429 and
\* fewer than maxRetries retries have been made
retryAgain(status, attempt, maxRetries) == status = 429 /\ attempt < maxRetries

timerAfterCatchLeak(timer) == timer

\* clearInterval(heartbeatTimer) in the catch block of a streaming branch
timerAfterCatch(timer) == IF timer = "active" THEN "cleared" ELSE timer

\* a request that has not reached its upstream call
NewRelay ==
  [pc |-> "idle", handler |-> "none", stream |-> FALSE, codexModel |-> FALSE,
   retryTimes |-> 0, attempt |-> 0, lastError |-> 0, timer |-> "none",
   headersSent |-> FALSE, status |-> 0, errorSent |-> 0, body |-> "none",
   ended |-> FALSE]

relayRest == <<quotaVars, reqs, tokVars, streamVars, provVars, codex, wire>>

InitRelay ==
  /\ now = 0
  /\ QuotaIdle
  /\ TokIdle
  /\ StreamIdle
  /\ ProvIdle
  /\ relay = NewRelay
  /\ codex = [pc |-> "idle"]
  /\ wire = << >>

\* the handler's catch-all: an error reply unless the headers are out
errorReply(r, code) ==
  IF r.headersSent THEN [r EXCEPT !.pc = "done"]
  ELSE [r EXCEPT !.pc = "done", !.headersSent = TRUE, !.status = code,
                 !.errorSent = code, !.body = "error", !.ended = TRUE]

\* the catch of the Claude handler's streaming branch: an error event
errorEvent(r, code) ==
  IF r.ended THEN [r EXCEPT !.pc = "done"]
  ELSE [r EXCEPT !.pc = "done", !.headersSent = TRUE,
                 !.status = IF r.headersSent THEN r.status ELSE 200,
                 !.errorSent = code, !.body = "error", !.ended = TRUE]

\* what a handler does with an error thrown in its upstream part
afterError(r, code) ==
  LET cleared == [r EXCEPT !.timer = timerAfterCatch(r.timer)] IN
  IF r.handler = "claude" /\ r.stream THEN errorEvent(cleared, code)
  ELSE errorReply(cleared, code)

\* the handler from the token to its first upstream call: a streaming request
\* sets its headers (flush: they are sent at once) and starts the heartbeat
RelayStart(handler, stream, halves, flush) ==
  /\ relay.pc = "idle"
  /\ relay' = [relay EXCEPT !.pc = "calling", !.handler = handler,
                            !.stream = stream, !.retryTimes = halves,
                            !.timer = IF stream THEN "active" ELSE "none",
                            !.headersSent = stream /\ flush,
                            !.status = IF stream /\ flush THEN 200 ELSE 0]
  /\ UNCHANGED relayRest

\* the Codex branch of the OpenAI handler: initialize() may reject; after it
\* chatOpenAI / chatOpenAIStream is not a function, so the call throws at once
RelayCodex(stream, initOk, flush) ==
  /\ relay.pc = "idle"
  /\ relay' =
       IF ~initOk
       THEN errorReply([relay EXCEPT !.handler = "openai", !.stream = stream,
                                     !.codexModel = TRUE, !.lastError = 500], 500)
       ELSE afterError([relay EXCEPT !.handler = "openai", !.stream = stream,
                                     !.codexModel = TRUE, !.lastError = 500,
                                     !.timer = IF stream THEN "active" ELSE "none",
                                     !.headersSent = stream /\ flush,
                                     !.status = IF stream /\ flush THEN 200 ELSE 0],
                       500)
  /\ UNCHANGED relayRest

\* the heartbeat timer fires: a comment line is written to the response
Heartbeat ==
  /\ relay.timer = "active"
  /\ ~relay.ended
  /\ ~relay.headersSent
  /\ relay' = [relay EXCEPT !.headersSent = TRUE, !.status = 200]
  /\ UNCHANGED relayRest

\* the upstream call fails with an HTTP status
UpstreamFails(code) ==
  /\ relay.pc = "calling"
  /\ relay' =
       IF retryAgain(code, relay.attempt, safeRetries(relay.retryTimes))
       THEN [relay EXCEPT !.attempt = @ + 1, !.lastError = code]
       ELSE afterError([relay EXCEPT !.lastError = code], code)
  /\ UNCHANGED relayRest

\* the upstream call succeeds: the answer is sent and the response ended
UpstreamOk ==
  /\ relay.pc = "calling"
  /\ relay' = [relay EXCEPT !.pc = "done", !.headersSent = TRUE, !.status = 200,
                            !.lastError = 0,
                            !.timer = IF relay.stream THEN "cleared" ELSE "none",
                            !.body = "answer", !.ended = TRUE]
  /\ UNCHANGED relayRest

NextRelay ==
  \/ \E handler \in {"openai", "claude"}, stream, flush \in BOOLEAN,
        halves \in RetryTimesHalves : RelayStart(handler, stream, halves, flush)
  \/ \E stream, initOk, flush \in BOOLEAN : RelayCodex(stream, initOk, flush)
  \/ Heartbeat
  \/ \E code \in {429, 500} : UpstreamFails(code)
  \/ UpstreamOk

SpecRelay == InitRelay /\ [][NextRelay]_vars

\* the retry count the configuration asks for, as a non-negative integer
ConfiguredRetries ==
  IF relay.retryTimes < 2 THEN 0
  ELSE CHOOSE n \in 0..(MaxRetries + 1) :
         n + n <= relay.retryTimes /\ relay.retryTimes < n + n + 2

\* C21: a 429 is retried at most R times and then reaches the client as 429;
\* any other upstream error reaches the client without a retry after it.
C21_RetryThenSurface ==
  /\ relay.attempt <= ConfiguredRetries
  /\ (relay.pc = "done" /\ relay.lastError # 0 /\ ~relay.codexModel) =>
       /\ relay.errorSent = relay.lastError
       /\ relay.lastError = 429 => relay.attempt = ConfiguredRetries

\* C22: when the handler of a streaming request has finished, its heartbeat
\* timer has been cancelled.
C22_HeartbeatCancelled ==
  (relay.pc = "done") => relay.timer # "active"

C22_Witness ==
  /\ relay.pc = "done"
  /\ relay.stream
  /\ relay.timer = "cleared"
  /\ relay.lastError = 429
  /\ relay.attempt > 0

\* ---------------------------------------------------------------------------
\* CodexProvider: chat calls and the rate-limit map (providers/codex.js)
\* ---------------------------------------------------------------------------

\* responses the provider receives from upstream
MaxPosts == 2

AccountIds == {"a1", "a2", "a3"}

\* a duration text is the sequence of its number-unit pairs ("2m30s"); an
\* absent field and a text without any such pair are the empty sequence
Dur(value, unit) == [value |-> value, unit |-> unit]

unitMs(unit) ==
  CASE unit = "ms" -> 1
    [] unit = "s" -> 1000
    [] unit = "m" -> 60 * 1000
    [] unit = "h" -> 60 * 60 * 1000

RECURSIVE totalMs(_)
totalMs(pairs) ==
  IF pairs = << >> THEN 0
  ELSE Head(pairs).value * unitMs(Head(pairs).unit) + totalMs(Tail(pairs))

\* parseDurationMs: null for no text and for a text without a match
parseDurationMs(durationStr) ==
  IF durationStr = << >> THEN Null ELSE totalMs(durationStr)

\* a parsed delay that the if (delay) tests let through
truthy(n) == n # Null /\ n # 0

\* the body of a 429 response
ErrorData(retryDelay, quotaResetDelay, message, inMessage, retryAfter) ==
  [retryDelay |-> retryDelay, quotaResetDelay |-> quotaResetDelay,
   message |-> message, inMessage |-> inMessage, retryAfter |-> retryAfter]

ErrorDatas ==
  { ErrorData(<<Dur(1, "m")>>, <<Dur(30, "s")>>, "slow down", << >>, Null),
    ErrorData(<< >>, << >>, "try again in 2m30s", <<Dur(2, "m"), Dur(30, "s")>>, 120),
    ErrorData(<< >>, << >>, "", << >>, 120),
    ErrorData(<< >>, << >>, "", << >>, Null),
    ErrorData(<<Dur(0, "s")>>, << >>, "limit", << >>, Null) }

\* parseRetryDelay: RetryInfo.retryDelay, metadata.quotaResetDelay, a duration
\* in the message, Retry-After seconds; null when none gives a delay
parseRetryDelay(data) ==
  IF truthy(parseDurationMs(data.retryDelay)) THEN parseDurationMs(data.retryDelay)
  ELSE IF truthy(parseDurationMs(data.quotaResetDelay))
  THEN parseDurationMs(data.quotaResetDelay)
  ELSE IF truthy(parseDurationMs(data.inMessage)) THEN parseDurationMs(data.inMessage)
  ELSE IF data.retryAfter # Null /\ data.retryAfter # 0 THEN data.retryAfter * 1000
  ELSE Null

\* the fallback window of _handleApiError
DefaultDelayMs == 3 * 60 * 60 * 1000

NoStatus == [rateLimited |-> FALSE, resetTime |-> Null, lastError |-> "", setAt |-> Null]

\* _setRateLimited
setRateLimited(map, accountId, delayMs, errorMessage, t) ==
  [map EXCEPT ![accountId] = [rateLimited |-> TRUE, resetTime |-> t + delayMs,
                              lastError |-> errorMessage, setAt |-> t]]

\* _clearRateLimited
clearRateLimited(map, accountId) == [map EXCEPT ![accountId] = NoStatus]

\* _handleApiError: what it leaves in the map before rethrowing
handleApiError(map, status, data, accountId, t) ==
  IF status = 429
  THEN setRateLimited(map, accountId,
         IF truthy(parseRetryDelay(data)) THEN parseRetryDelay(data)
         ELSE DefaultDelayMs,
         IF data.message # "" THEN data.message ELSE "Rate limit exceeded", t)
  ELSE map

\* chat(): the map after axios.post has answered
chatAfter(map, status, data, accountId, t) ==
  IF status = 200 THEN clearRateLimited(map, accountId)
  ELSE handleApiError(map, status, data, accountId, t)

\* chatStream(): it has no catch and does not touch the map
chatStreamAfter(map, status, data, accountId, t) == map

\* a response body that says nothing about a delay
NoData == ErrorData(<< >>, << >>, "", << >>, Null)

\* the response last received: the call, its kind and what came back
NoPost == [call |-> 0, accountId |-> "none", stream |-> FALSE, status |-> 0,
           data |-> NoData, at |-> 0, index |-> 0]

\* a CodexProvider after initialize(), no call made
NewCodex ==
  [rateLimitStatus |-> [a \in AccountIds |-> NoStatus], answered |-> {},
   last |-> NoPost]

\* API-key accounts: getToken never refreshes them
CodexChatLists ==
  {<<Account("a1", TRUE, "api_key", FALSE, Null), Account("a2", TRUE, "api_key", FALSE, Null)>>,
   <<Account("a1", TRUE, "api_key", FALSE, Null)>>}

InitCodex ==
  /\ now = TokStart
  /\ tmKind = "codex"
  /\ \E l \in CodexChatLists : accounts = l /\ file = l
  /\ currentIndex = 0
  /\ calls = [c \in CallIds |-> NewCall]
  /\ issued = 0
  /\ QuotaIdle
  /\ StreamIdle
  /\ ProvIdle
  /\ relay = [pc |-> "idle"]
  /\ wire = << >>
  /\ codex = NewCodex

codexRest == <<route, disk, lastCheck, checks, admits, usageInit, peAt, reqs,
               tmKind, accounts, file, currentIndex, calls, issued,
               streamVars, provVars, relay, wire>>

\* chat() or chatStream() of call c after its getToken: axios.post answers
CodexResponse(c, stream, status, data) ==
  /\ calls[c].pc = "done"
  /\ calls[c].result \in AccountIds
  /\ c \notin codex.answered
  /\ Cardinality(codex.answered) < MaxPosts
  /\ codex' = [rateLimitStatus |->
                 IF stream
                 THEN chatStreamAfter(codex.rateLimitStatus, status, data,
                                      calls[c].result, now)
                 ELSE chatAfter(codex.rateLimitStatus, status, data,
                                calls[c].result, now),
               answered |-> codex.answered \cup {c},
               last |-> [call |-> c, accountId |-> calls[c].result,
                         stream |-> stream, status |-> status, data |-> data,
                         at |-> now, index |-> currentIndex]]
  /\ UNCHANGED <<now, codexRest>>

\* _getRateLimitStatus(accountId), as getAccountQuotas calls it
StatusRead(accountId) ==
  /\ \E i \in DOMAIN accounts : accounts[i].id = accountId
  /\ codex.rateLimitStatus[accountId].rateLimited
  /\ now >= codex.rateLimitStatus[accountId].resetTime
  /\ codex' = [codex EXCEPT !.rateLimitStatus = clearRateLimited(@, accountId)]
  /\ UNCHANGED <<now, codexRest>>

\* time passes up to the reset time of an entry
Elapse(accountId) ==
  /\ codex.rateLimitStatus[accountId].rateLimited
  /\ now < codex.rateLimitStatus[accountId].resetTime
  /\ now' = codex.rateLimitStatus[accountId].resetTime
  /\ UNCHANGED <<codex, codexRest>>

NextCodex ==
  \/ \E c \in CallIds : GetToken(c)
  \/ \E c \in CallIds, stream \in BOOLEAN, status \in {200, 429, 500} :
       \E data \in IF status = 429 THEN ErrorDatas ELSE {NoData} :
         CodexResponse(c, stream, status, data)
  \/ \E a \in AccountIds : StatusRead(a)
  \/ \E a \in AccountIds : Elapse(a)

SpecCodex == InitCodex /\ [][NextCodex]_vars

\* the stores of the gating check: one fresh account; a stale one that can be
\* refreshed beside an API-key account; a stale one that cannot, beside a
\* disabled account
GateLists ==
  {<<Account("a1", TRUE, "oauth", TRUE, ExpFar)>>,
   <<Account("a1", TRUE, "oauth", TRUE, ExpEdge), Account("a2", TRUE, "api_key", FALSE, Null)>>,
   <<Account("a1", TRUE, "oauth", FALSE, ExpEdge), Account("a2", FALSE, "api_key", FALSE, Null)>>}

InitGate ==
  /\ now = TokStart
  /\ tmKind = "codex"
  /\ \E l \in GateLists : accounts = l /\ file = l
  /\ currentIndex = 0
  /\ calls = [c \in CallIds |-> NewCall]
  /\ issued = 0
  /\ QuotaIdle
  /\ StreamIdle
  /\ ProvIdle
  /\ relay = [pc |-> "idle"]
  /\ wire = << >>
  /\ codex = NewCodex

\* the credential store under a CodexProvider whose calls are rate limited
\* and answered
NextGate ==
  \/ \E c \in CallIds : GetToken(c)
  \/ \E c \in CallIds : RefreshRejected(c)
  \/ \E c \in CallIds, ok \in BOOLEAN : RefreshResponse(c, ok)
  \/ \E c \in CallIds, ok \in BOOLEAN : SaveDone(c, ok)
  \/ \E c \in CallIds, status \in {200, 429} : CodexResponse(c, FALSE, status, NoData)

SpecGate == InitGate /\ [][NextGate]_vars

\* ---------------------------------------------------------------------------
\* Claims about the Codex rate-limit map
\* ---------------------------------------------------------------------------

\* the delay a 429 body states: the first source, in order, that gives one
StatedDelay(data) ==
  IF data.retryDelay # << >> THEN totalMs(data.retryDelay)
  ELSE IF data.quotaResetDelay # << >> THEN totalMs(data.quotaResetDelay)
  ELSE IF data.inMessage # << >> THEN totalMs(data.inMessage)
  ELSE IF data.retryAfter # Null THEN data.retryAfter * 1000
  ELSE 3 * 60 * 60 * 1000

\* C23: a 429 on a call made with account a leaves an entry for a with
\* resetTime = now + the stated delay (3 hours when none is stated) and the
\* error text; a successful call with a removes the entry; nothing else does
\* before resetTime.
C23_RateLimitTracked ==
  [][ /\ (codex'.answered # codex.answered) =>
           LET p == codex'.last
               e == codex'.rateLimitStatus[p.accountId] IN
           /\ p.status = 429 =>
                /\ e.rateLimited
                /\ e.resetTime = now + StatedDelay(p.data)
                /\ e.lastError = (IF p.data.message # "" THEN p.data.message
                                  ELSE "Rate limit exceeded")
           /\ p.status = 200 => ~e.rateLimited
           /\ \A a \in AccountIds \ {p.accountId} :
                codex'.rateLimitStatus[a] = codex.rateLimitStatus[a]
      /\ (codex'.answered = codex.answered) =>
           \A a \in AccountIds :
             codex'.rateLimitStatus[a] # codex.rateLimitStatus[a] =>
               /\ codex.rateLimitStatus[a].rateLimited
               /\ now >= codex.rateLimitStatus[a].resetTime
               /\ ~codex'.rateLimitStatus[a].rateLimited ]_vars

\* positions of the enabled accounts, read from the list alone
EnabledPositions(list) == {i \in DOMAIN list : list[i].enable}

\* the position the rotation stands at
SlotPosition(list, index) ==
  CHOOSE i \in EnabledPositions(list) :
    Cardinality({j \in EnabledPositions(list) : j < i})
      = index % Cardinality(EnabledPositions(list))

\* C24: every selection getToken makes is the rotation's slot among the
\* enabled accounts, whatever the rate-limit map holds; a call that has not
\* selected again returns the account it selected; and with an enabled
\* account in the list a first selection is always made.
C24_MapNeverGates ==
  [][ \A c \in CallIds :
        /\ (calls'[c] # calls[c] /\ currentIndex' # currentIndex) =>
             /\ EnabledPositions(accounts') # {}
             /\ currentIndex' = currentIndex + 1
             /\ IF calls'[c].pc = "done"
                THEN calls'[c].result = accounts'[SlotPosition(accounts', currentIndex)].id
                ELSE calls'[c].live /\ calls'[c].acct = SlotPosition(accounts', currentIndex)
        /\ (calls'[c] # calls[c] /\ calls[c].pc = "new"
              /\ EnabledPositions(accounts) # {}) => currentIndex' # currentIndex
        /\ (calls'[c].pc = "done" /\ calls[c].pc = "saving"
              /\ currentIndex' = currentIndex) =>
             calls'[c].result = held(c).id ]_vars

C24_Witness ==
  /\ Len(accounts) = 1
  /\ codex.last.status = 429
  /\ codex.rateLimitStatus["a1"].rateLimited
  /\ currentIndex > codex.last.index
  /\ \E c \in CallIds :
       calls[c].pc = "done" /\ calls[c].result = "a1" /\ c \notin codex.answered

(***************************************************************************)
(* Legacy entries.  config.json is read as it is: a limit or usage entry   *)
(* written by an older version or by hand can be a bare number, and        *)
(* the handlers normalise it themselves on every check.                    *)
(***************************************************************************)
\* numbers a config.json can hold for a limit or a usage
LegacyNumbers == {0 - 1, 1}

LegacyLimits ==
  {NumLimit(n) : n \in LegacyNumbers}
    \cup {ObjLimit(n, "none", Null, Null) : n \in LegacyNumbers}
    \cup {ObjLimit(0, "none", Null, Null), ObjLimit(2, "daily", 1, 7 * TicksPerDay)}

LegacyUsages ==
  {NumUsage(u) : u \in LegacyNumbers}
    \cup {ObjUsage(u, Null, Null) : u \in LegacyNumbers}
    \cup {AbsentUsage}

InitLegacy ==
  /\ now = StartInstant
  /\ \E lim \in LegacyLimits, us \in LegacyUsages :
       /\ route = [models |-> {"m1", "m2"},
                   aliases |-> [a \in {} |-> "m1"],
                   modelLimits |-> [m \in Names |->
                                      IF m = "m1" THEN lim
                                      ELSE IF m = "m2" THEN NumLimit(1)
                                      ELSE AbsentLimit],
                   modelUsage |-> [m \in Names |-> IF m = "m1" THEN us ELSE AbsentUsage]]
       /\ usageInit = [m \in Names |-> IF m = "m1" THEN us ELSE AbsentUsage]
  /\ disk = route.modelUsage
  /\ lastCheck = NoCheck
  /\ checks = [m \in Names |-> 0]
  /\ admits = [m \in Names |-> 0]
  /\ peAt = [m \in Names |-> Null]
  /\ reqs = [r \in ReqIds |-> NewReq]
  /\ TokIdle
  /\ StreamIdle
  /\ ProvIdle
  /\ MoreIdle

SpecLegacy == InitLegacy /\ [][NextQuota]_vars

\* the object a bare number is said to stand for
AsObjectLimit(limit) ==
  IF limit.kind = "num" THEN ObjLimit(limit.n, "none", Null, Null) ELSE limit

AsObjectUsage(usage) ==
  IF usage.kind = "num" THEN ObjUsage(usage.n, Null, Null) ELSE usage

AsObjects(rt, m) ==
  [rt EXCEPT !.modelLimits[m] = AsObjectLimit(@), !.modelUsage[m] = AsObjectUsage(@)]

\* C25: in every state a check of model m decides, reports and leaves behind
\* the same usage whether the stored limit and usage are bare numbers or the
\* objects {total: n, period: null, periodLimit: null, expireAt: null} and
\* {totalUsed: u}.
C25_BareNumberAsObject ==
  \A m \in {"m1", "m2"} :
    LET bare == consumeRoutingModelQuota(route, m, now)
        object == consumeRoutingModelQuota(AsObjects(route, m), m, now)
    IN  /\ bare.res = object.res
        /\ bare.save = object.save
        /\ normalizeUsageEntry(bare.route.modelUsage[m])
             = normalizeUsageEntry(object.route.modelUsage[m])

\* C26: the counters a check evaluates, and the counters the route holds
\* after it, are never negative.
C26_CountersNeverNegative ==
  lastCheck.model # "none" =>
    /\ lastCheck.pre.totalUsed >= 0
    /\ lastCheck.pre.periodUsed >= 0
    /\ lastCheck.post.totalUsed >= 0
    /\ lastCheck.post.periodUsed >= 0

\* C27: in every state the route can reach through checks of either handler,
\* from any stored limit and usage, legacy entries included,
\* the two handlers' quota checks give the same result for every model and
\* leave the same route record behind.
C27_HandlersAgree ==
  \A m \in ModelIds :
    consumeRoutingModelQuota(route, m, now) = claudeConsumeRoutingModelQuota(route, m, now)

C27_Witness ==
  /\ checks["m1"] >= 2
  /\ admits["m1"] >= 1
  /\ route.modelUsage["m1"].kind = "obj"
  /\ ~consumeRoutingModelQuota(route, "m1", now).res.allowed
  /\ ~claudeConsumeRoutingModelQuota(route, "m1", now).res.allowed

\* a check that met no rejection test and whose saveConfigJson threw: it is
\* allowed, and the route in memory holds the incremented usage
LedgerSaveTolerated ==
  (/\ lastCheck.model # "none"
   /\ ~lastCheck.saveOk
   /\ lastCheck.limit # NoLimit
   /\ rejectReason(lastCheck.limit, lastCheck.pre, lastCheck.t) = "none") =>
    /\ lastCheck.res.allowed
    /\ lastCheck.post.totalUsed = lastCheck.pre.totalUsed + 1
    /\ normalizeUsageEntry(route.modelUsage[lastCheck.model]) = lastCheck.post

\* the save inside refreshToken has ended for call c
SaveEnded(c) == calls[c].pc = "saving" /\ calls'[c].pc # "saving"

\* C28: a save that fails does not fail the request in flight: the quota
\* check is allowed with the usage incremented in memory, and a getToken
\* whose refresh succeeded returns the refreshed account once the save has
\* ended, whether the save succeeded or not.
C28_SaveFailureTolerated ==
  [][ /\ LedgerSaveTolerated'
      /\ \A c \in CallIds :
           SaveEnded(c) => calls'[c].pc = "done" /\ calls'[c].result = held(c).id ]_vars

(***************************************************************************)
(* Error replies of the chat handlers, from entry to the quota check.      *)
(* wire holds the last reply: its handler, status and JSON body.           *)
(***************************************************************************)
\* new AppError(message, statusCode, type)
AppError(message, statusCode, type) ==
  [message |-> message, statusCode |-> statusCode, type |-> type]

\* a JSON body: its top-level "type" ("" when it has none) and its "error"
\* member, which is a string or an object with message and type
ErrorString(text) == [type |-> "", error |-> [kind |-> "string", message |-> text, type |-> ""]]
ErrorObject(top, message, type) ==
  [type |-> top, error |-> [kind |-> "object", message |-> message, type |-> type]]

\* utils/errors.js: {error: {message, type}}
buildOpenAIErrorPayload(err, statusCode) ==
  ErrorObject("", err.message, IF err.type # "" THEN err.type ELSE "api_error")

\* utils/errors.js: {type: "error", error: {type, message}}
buildClaudeErrorPayload(err, statusCode) ==
  ErrorObject("error", err.message,
              IF statusCode = 400 THEN "invalid_request_error"
              ELSE IF statusCode = 429 THEN "rate_limit_error"
              ELSE "api_error")

\* the message of a quota rejection
quotaMessage(q) ==
  CASE q.reason = "total_exceeded" -> "total quota exceeded"
    [] q.reason = "period_exceeded" -> "period quota exceeded"
    [] q.reason = "expired" -> "routing key expired"
    [] OTHER -> "quota exceeded"

\* the body the OpenAI handler sends for a missing messages field
openaiMessagesRequired == ErrorString("messages is required")

\* res.status(status).json(...) of a validation failure or quota rejection
openaiErrorBody(message, status) ==
  buildOpenAIErrorPayload(
    AppError(message, status,
             IF status = 429 THEN "rate_limit_error" ELSE "invalid_request_error"),
    status)

claudeErrorBody(message, status) ==
  buildClaudeErrorPayload([message |-> message, type |-> ""], status)

Reply(h, failure, status, body) ==
  [handler |-> h, failure |-> failure, status |-> status, body |-> body]

\* routes whose checks meet every rejection reason
WireAliasMaps == {[a \in {} |-> ""], [a \in {"fast"} |-> "m1"], [a \in {"fast"} |-> ""]}
WireLimits ==
  {ObjLimit(1, "none", Null, Null), ObjLimit(Null, "daily", 1, Null),
   ObjLimit(Null, "none", Null, 2 * TicksPerDay)}

InitWire ==
  /\ now = StartInstant
  /\ \E al \in WireAliasMaps, lim \in WireLimits :
       route = [models |-> {"m1", "m2"},
                aliases |-> al,
                modelLimits |-> [m \in Names |-> IF m = "m1" THEN lim ELSE AbsentLimit],
                modelUsage |-> [m \in Names |-> AbsentUsage]]
  /\ usageInit = [m \in Names |-> AbsentUsage]
  /\ disk = route.modelUsage
  /\ lastCheck = NoCheck
  /\ checks = [m \in Names |-> 0]
  /\ admits = [m \in Names |-> 0]
  /\ peAt = [m \in Names |-> Null]
  /\ reqs = [r \in ReqIds |-> NewReq]
  /\ TokIdle
  /\ StreamIdle
  /\ ProvIdle
  /\ relay = [pc |-> "idle"]
  /\ codex = [pc |-> "idle"]
  /\ wire = << >>

\* a handler from its entry to its first await: wire' is what it has sent
\* by then (nothing, status 0, when the request goes on to the provider)
HandlerReply(h, master, hasMessages, model, saveOk) ==
  LET ds == downstreamRoute(route, master)
      mappedEmpty == ~ds.isMaster /\ model \in DOMAIN ds.modelAliases
                       /\ ds.modelAliases[model] = ""
      rs == IF ds.isMaster THEN [ok |-> TRUE, actual |-> model] ELSE resolveModel(ds, model)
      key == quotaModelId(model, rs.actual)
      q == IF h = "openai" THEN consumeRoutingModelQuota(route, key, now)
           ELSE claudeConsumeRoutingModelQuota(route, key, now)
      body(message, status) == IF h = "openai" THEN openaiErrorBody(message, status)
                               ELSE claudeErrorBody(message, status)
  IN
  /\ UNCHANGED <<reqs, tokVars, streamVars, provVars, relay, codex>>
  /\ IF ~hasMessages
       THEN /\ wire' = <<Reply(h, "messages", 400,
                               IF h = "openai" THEN openaiMessagesRequired
                               ELSE body("messages is required", 400))>>
            /\ UNCHANGED quotaVars
     ELSE IF model = ""
       THEN /\ wire' = <<Reply(h, "model", 400, body("model is required", 400))>>
            /\ UNCHANGED quotaVars
     ELSE IF mappedEmpty
       THEN /\ wire' = <<Reply(h, "alias", 400, body("Invalid alias mapping", 400))>>
            /\ UNCHANGED quotaVars
     ELSE IF ~rs.ok
       THEN /\ wire' = <<Reply(h, "not_allowed", 400, body("Model is not allowed", 400))>>
            /\ UNCHANGED quotaVars
     ELSE IF ds.isMaster
       THEN /\ wire' = <<Reply(h, "none", 0, ErrorString(""))>>
            /\ UNCHANGED quotaVars
     ELSE /\ ChecksSoFar < MaxChecks
          /\ RecordCheck(key, q, saveOk)
          /\ UNCHANGED <<now, usageInit>>
          /\ wire' = IF q.res.allowed
                       THEN <<Reply(h, "none", 0, ErrorString(""))>>
                       ELSE <<Reply(h, q.res.reason, 429, body(quotaMessage(q.res), 429))>>

\* the instants at which requests arrive: the first day and the third
WireInstants == {StartInstant, 2 * TicksPerDay + 1}

\* time passes between requests
WireTick(t) ==
  /\ t \in WireInstants
  /\ t > now
  /\ now' = t
  /\ UNCHANGED <<route, disk, lastCheck, checks, admits, usageInit, peAt, reqs, tokVars,
                 otherVars>>

NextWire ==
  \/ \E i \in RequestInputs : HandlerReply("openai", i[1], i[2], i[3], TRUE)
  \/ \E i \in RequestInputs : HandlerReply("claude", i[1], i[2], i[3], TRUE)
  \/ \E t \in WireInstants : WireTick(t)

SpecWire == InitWire /\ [][NextWire]_vars

\* the two wire formats of an error body
OpenAIFormat(body) ==
  body.type = "" /\ body.error.kind = "object" /\ body.error.message # ""
    /\ body.error.type # ""
ClaudeFormat(body) ==
  body.type = "error" /\ body.error.kind = "object" /\ body.error.message # ""
    /\ body.error.type # ""

\* C29: every error reply is in its handler's wire format, with status 400
\* for a validation failure and 429 for a quota rejection.
C29_ErrorWireFormat ==
  \A i \in DOMAIN wire :
    wire[i].failure # "none" =>
      /\ IF wire[i].handler = "openai" THEN OpenAIFormat(wire[i].body)
         ELSE ClaudeFormat(wire[i].body)
      /\ wire[i].failure \in {"messages", "model", "alias", "not_allowed"}
           => wire[i].status = 400
      /\ wire[i].failure \in {"total_exceeded", "period_exceeded", "expired"}
           => wire[i].status = 429

(***************************************************************************)
(* Thought signatures.  The upstream client hands the handlers reasoning   *)
(* and tool calls that can carry a thoughtSignature; what reaches the      *)
(* client depends on config.passSignatureToClient.  "" is no signature.    *)
(***************************************************************************)
Signatures == {"", "sigA", "sigB"}

\* one tool call of the upstream: its signature and whether its arguments
\* parse as JSON
SignedToolCall(signature, argsOk) == [thoughtSignature |-> signature, argsOk |-> argsOk]

\* what the upstream client delivers: a callback datum of a streaming call,
\* or the result of a call without streaming
UpstreamData(type, reasoning, signature, toolCalls) ==
  [type |-> type, reasoning |-> reasoning, thoughtSignature |-> signature,
   tool_calls |-> toolCalls]

StreamDatas ==
  {UpstreamData("reasoning", TRUE, sg, << >>) : sg \in Signatures}
    \cup {UpstreamData("tool_calls", FALSE, "", <<SignedToolCall(sg, ok)>>) :
            sg \in Signatures, ok \in BOOLEAN}
    \cup {UpstreamData("tool_calls", FALSE, "", <<SignedToolCall("sigA", TRUE), SignedToolCall("", TRUE)>>),
          UpstreamData("text", FALSE, "", << >>)}

ResultDatas ==
  {UpstreamData("result", r, sg, << >>) : r \in BOOLEAN, sg \in Signatures}
    \cup {UpstreamData("result", TRUE, sg, <<SignedToolCall(sg2, ok)>>) :
            sg \in {"", "sigA"}, sg2 \in Signatures, ok \in BOOLEAN}

\* one object written to the client: what it is and the signature member it
\* carries ("" when it has none)
Item(kind, signature) == [kind |-> kind, signature |-> signature]

\* variant: tool calls are passed on as they came
openaiToolCallKeep(toolCall, pass) == Item("tool_call", toolCall.thoughtSignature)

\* { index, ...toolCall } with the flag, { index, ...rest } without it
openaiToolCall(toolCall, pass) ==
  Item("tool_call", IF pass THEN toolCall.thoughtSignature ELSE "")

\* the callback of the OpenAI handler's streaming branch: the chunk written
\* for one datum
openaiStreamChunk(data, pass) ==
  CASE data.type = "reasoning" ->
         <<Item("reasoning_delta",
                IF data.thoughtSignature # "" /\ pass THEN data.thoughtSignature ELSE "")>>
    [] data.type = "tool_calls" ->
         [i \in DOMAIN data.tool_calls |-> openaiToolCall(data.tool_calls[i], pass)]
    [] OTHER -> <<Item("content_delta", "")>>

\* the message of the OpenAI handler's reply without streaming
openaiMessage(result, pass) ==
  <<Item("message",
         IF result.thoughtSignature # "" /\ pass THEN result.thoughtSignature ELSE "")>>
    \o [i \in DOMAIN result.tool_calls |-> openaiToolCall(result.tool_calls[i], pass)]

\* the tool_use block of a tool call whose arguments parse
claudeToolBlock(tc, pass) ==
  Item("tool_use", IF tc.thoughtSignature # "" /\ pass THEN tc.thoughtSignature ELSE "")

RECURSIVE claudeStreamTools(_, _)
\* the blocks the Claude stream writes for tool calls; one whose arguments
\* do not parse is skipped
claudeStreamTools(tcs, pass) ==
  IF tcs = << >> THEN << >>
  ELSE (IF Head(tcs).argsOk
          THEN <<claudeToolBlock(Head(tcs), pass), Item("input_json_delta", ""),
                 Item("content_block_stop", "")>>
          ELSE << >>)
       \o claudeStreamTools(Tail(tcs), pass)

\* the callback of the Claude handler's streaming branch
claudeStreamEvents(data, pass, reasoningSent) ==
  LET signature == IF data.thoughtSignature # "" /\ pass THEN data.thoughtSignature ELSE ""
  IN
  CASE data.type = "reasoning" ->
         (IF reasoningSent THEN << >> ELSE <<Item("thinking_start", signature)>>)
           \o <<Item("thinking_delta", signature)>>
    [] data.type = "tool_calls" -> claudeStreamTools(data.tool_calls, pass)
    [] OTHER -> <<Item("text_delta", "")>>

RECURSIVE claudeResponseTools(_, _)
\* createClaudeResponse, tool calls: a call whose arguments do not parse gets
\* a block with an empty input
claudeResponseTools(tcs, pass) ==
  IF tcs = << >> THEN << >>
  ELSE <<IF Head(tcs).argsOk THEN claudeToolBlock(Head(tcs), pass)
         ELSE Item("tool_use", "")>>
       \o claudeResponseTools(Tail(tcs), pass)

\* createClaudeResponse: the content blocks
claudeResponseBlocks(result, pass) ==
  (IF result.reasoning
     THEN <<Item("thinking",
                 IF result.thoughtSignature # "" /\ pass THEN result.thoughtSignature
                 ELSE "")>>
     ELSE << >>)
    \o <<Item("text", "")>>
    \o claudeResponseTools(result.tool_calls, pass)

\* what a handler writes for one datum
rendered(handler, stream, data, pass, reasoningSent) ==
  IF handler = "openai"
    THEN IF stream THEN openaiStreamChunk(data, pass) ELSE openaiMessage(data, pass)
    ELSE IF stream THEN claudeStreamEvents(data, pass, reasoningSent)
         ELSE claudeResponseBlocks(data, pass)

NoDatum == UpstreamData("none", FALSE, "", << >>)

\* a request that has reached its upstream call, under either setting of
\* config.passSignatureToClient
InitSig ==
  /\ now = StartInstant
  /\ QuotaIdle
  /\ reqs = [r \in ReqIds |-> NewReq]
  /\ TokIdle
  /\ StreamIdle
  /\ ProvIdle
  /\ codex = [pc |-> "idle"]
  /\ wire = << >>
  /\ \E h \in {"openai", "claude"}, st \in BOOLEAN, pass \in BOOLEAN :
       relay = [pc |-> "upstream", handler |-> h, stream |-> st,
                passSignatureToClient |-> pass, reasoningSent |-> FALSE,
                received |-> 0, data |-> NoDatum, wasSent |-> FALSE]

sigRest == <<quotaVars, reqs, tokVars, streamVars, provVars, codex>>

\* the upstream client calls the callback with one datum; wire' is what the
\* handler writes for it
CallbackData(data) ==
  /\ relay.pc = "upstream"
  /\ relay.stream
  /\ relay.received < MaxEvents
  /\ wire' = rendered(relay.handler, TRUE, data, relay.passSignatureToClient,
                      relay.reasoningSent)
  /\ relay' = [relay EXCEPT !.received = @ + 1, !.data = data,
                            !.wasSent = relay.reasoningSent,
                            !.reasoningSent = @ \/ (relay.handler = "claude"
                                                      /\ data.type = "reasoning")]
  /\ UNCHANGED sigRest

\* the call without streaming returns; wire' is the body of the reply
ResultData(data) ==
  /\ relay.pc = "upstream"
  /\ ~relay.stream
  /\ wire' = rendered(relay.handler, FALSE, data, relay.passSignatureToClient, FALSE)
  /\ relay' = [relay EXCEPT !.pc = "done", !.received = 1, !.data = data]
  /\ UNCHANGED sigRest

\* the streaming call resolves and the handler ends the stream
StreamResolves ==
  /\ relay.pc = "upstream"
  /\ relay.stream
  /\ relay' = [relay EXCEPT !.pc = "done"]
  /\ UNCHANGED <<wire, sigRest>>

NextSig ==
  \/ \E data \in StreamDatas : CallbackData(data)
  \/ \E data \in ResultDatas : ResultData(data)
  \/ StreamResolves

SpecSig == InitSig /\ [][NextSig]_vars

\* the same datum with every signature in it replaced by sg
Resigned(data, sg) ==
  [data EXCEPT !.thoughtSignature = IF @ = "" THEN "" ELSE sg,
               !.tool_calls = [i \in DOMAIN @ |->
                                 [@[i] EXCEPT !.thoughtSignature =
                                    IF @ = "" THEN "" ELSE sg]]]

SignaturesIn(data) ==
  {data.thoughtSignature} \cup {data.tool_calls[i].thoughtSignature : i \in DOMAIN data.tool_calls}

\* C30: without the flag nothing written carries a signature, and what is
\* written is the same whatever the signature values of the datum are; a
\* signature that is written is one the datum carried, and the flag is set.
C30_SignatureOnlyWithFlag ==
  relay.pc \in {"upstream", "done"} /\ relay.received > 0 =>
    /\ ~relay.passSignatureToClient =>
         /\ \A i \in DOMAIN wire : wire[i].signature = ""
         /\ \A sg \in Signatures \ {""} :
              rendered(relay.handler, relay.stream, Resigned(relay.data, sg),
                       FALSE, relay.wasSent) = wire
    /\ \A i \in DOMAIN wire :
         wire[i].signature # "" =>
           relay.passSignatureToClient /\ wire[i].signature \in SignaturesIn(relay.data)

C30_Witness ==
  /\ relay.pc \in {"upstream", "done"}
  /\ relay.received > 0
  /\ ~relay.passSignatureToClient
  /\ SignaturesIn(relay.data) # {""}
  /\ wire # << >>

(***************************************************************************)
(* The chunks of an OpenAI stream.  wire holds the chunks written so far:  *)
(* what each carries and its finish_reason ("null" for null).              *)
(***************************************************************************)
\* createStreamChunk(id, created, model, delta, finish_reason = null)
createStreamChunk(delta, finish_reason) == [delta |-> delta, finish_reason |-> finish_reason]

\* variant: the closing chunk always says stop
finishReasonStop(hasToolCall) == "stop"

\* hasToolCall ? 'tool_calls' : 'stop'
finishReason(hasToolCall) == IF hasToolCall THEN "tool_calls" ELSE "stop"

\* the data the upstream client hands the streaming callback
ChunkDataTypes == {"usage", "reasoning", "tool_calls", "text"}

\* a streaming request of the OpenAI handler that has sent its headers and
\* is about to call the upstream, for an image model or not, with or
\* without a retry left
InitChunks ==
  /\ now = StartInstant
  /\ QuotaIdle
  /\ reqs = [r \in ReqIds |-> NewReq]
  /\ TokIdle
  /\ StreamIdle
  /\ ProvIdle
  /\ codex = [pc |-> "idle"]
  /\ wire = << >>
  /\ \E image \in BOOLEAN, retries \in 0..MaxRetries :
       relay = [pc |-> "streaming", isImageModel |-> image, safeRetries |-> retries,
                attempt |-> 0, hasToolCall |-> FALSE, received |-> 0, ended |-> FALSE]

chunkRest == <<quotaVars, reqs, tokVars, streamVars, provVars, codex>>

\* the callback of generateAssistantResponse is called with one datum
ChunkCallback(type) ==
  /\ relay.pc = "streaming"
  /\ ~relay.isImageModel
  /\ relay.received < MaxEvents
  /\ relay' = [relay EXCEPT !.received = @ + 1,
                            !.hasToolCall = @ \/ type = "tool_calls"]
  /\ wire' = IF type = "usage" THEN wire
             ELSE Append(wire, createStreamChunk(type, "null"))
  /\ UNCHANGED chunkRest

\* the upstream call fails with status: with429Retry calls it again after a
\* 429 while retries are left, otherwise the error leaves the try block
ChunkUpstreamFails(status) ==
  /\ relay.pc = "streaming"
  /\ IF retryAgain(status, relay.attempt, relay.safeRetries)
       THEN relay' = [relay EXCEPT !.attempt = @ + 1]
       ELSE relay' = [relay EXCEPT !.pc = "failed"]
  /\ UNCHANGED <<wire, chunkRest>>

\* with429Retry resolves: the closing chunk is written and the stream ended
ChunkUpstreamOk ==
  /\ relay.pc = "streaming"
  /\ wire' = IF relay.isImageModel
               THEN wire \o <<createStreamChunk("content", "null"),
                              createStreamChunk("empty", "stop")>>
               ELSE Append(wire, createStreamChunk("empty", finishReason(relay.hasToolCall)))
  /\ relay' = [relay EXCEPT !.pc = "ended", !.ended = TRUE]
  /\ UNCHANGED chunkRest

NextChunks ==
  \/ \E type \in ChunkDataTypes : ChunkCallback(type)
  \/ \E status \in {429, 500} : ChunkUpstreamFails(status)
  \/ ChunkUpstreamOk

SpecChunks == InitChunks /\ [][NextChunks]_vars

\* C31: a stream that was ended normally has exactly one chunk with a
\* finish_reason, its last one, and the reason is tool_calls exactly when a
\* tool-call chunk was written before it, otherwise stop; a stream that is
\* not ended has no such chunk.
C31_OneFinishReasonLast ==
  LET finished == {i \in DOMAIN wire : wire[i].finish_reason # "null"}
      toolCalls == {i \in DOMAIN wire : wire[i].delta = "tool_calls"}
  IN  IF relay.pc = "ended"
        THEN /\ finished = {Len(wire)}
             /\ wire[Len(wire)].finish_reason
                  = (IF toolCalls # {} THEN "tool_calls" ELSE "stop")
        ELSE finished = {}

C31_Witness ==
  /\ relay.pc = "ended"
  /\ relay.attempt > 0
  /\ \E i \in DOMAIN wire : wire[i].delta = "tool_calls"
  /\ \E i \in DOMAIN wire : wire[i].delta = "text"
  /\ wire[Len(wire)].finish_reason = "tool_calls"

(***************************************************************************)
(* Concurrent requests on one route.  The API-key middleware                *)
(* (server/index.js) attaches a record of the matched route to the         *)
(* request; the handler runs later and its consumeRoutingModelQuota looks  *)
(* the route up again by id, reads the usage entry, decides and writes it  *)
(* back without returning to the event loop.  Other requests run between   *)
(* the middleware and the handler and while a request awaits its upstream. *)
(***************************************************************************)
Racers == {"p", "q", "s"}

\* the endpoint each client posts to
HandlerOf == [r \in Racers |-> IF r = "q" THEN "claude" ELSE "openai"]

NewRacer ==
  [pc |-> "new", handler |-> "none", model |-> "", seen |-> << >>,
   pre |-> 0, post |-> 0, allowed |-> FALSE]

\* variant: the check works on the route as the middleware saw it
getRoutingRouteByIdSeen(current, seen) == seen

\* config.routing.routes.find(...) at the time of the check
getRoutingRouteById(current, seen) == current

RaceLimits ==
  {ObjLimit(2, "none", Null, Null), ObjLimit(2, "daily", 1, Null)}

RaceUsages == {AbsentUsage, ObjUsage(1, 1, 1 * TicksPerDay)}

InitRace ==
  /\ now = StartInstant
  /\ \E lim \in RaceLimits, us \in RaceUsages :
       /\ route = [models |-> {"m1", "m2"},
                   aliases |-> [a \in {} |-> "m1"],
                   modelLimits |-> [m \in Names |->
                                      IF m = "m1" THEN lim
                                      ELSE IF m = "m2" THEN ObjLimit(1, "none", Null, Null)
                                      ELSE AbsentLimit],
                   modelUsage |-> [m \in Names |-> IF m = "m1" THEN us ELSE AbsentUsage]]
       /\ usageInit = [m \in Names |-> IF m = "m1" THEN us ELSE AbsentUsage]
  /\ disk = route.modelUsage
  /\ lastCheck = NoCheck
  /\ checks = [m \in Names |-> 0]
  /\ admits = [m \in Names |-> 0]
  /\ peAt = [m \in Names |-> Null]
  /\ reqs = [r \in Racers |-> NewRacer]
  /\ TokIdle
  /\ StreamIdle
  /\ ProvIdle
  /\ MoreIdle

\* the middleware matches the API key and calls next()
Authenticate(r, h, m) ==
  /\ reqs[r].pc = "new"
  /\ reqs' = [reqs EXCEPT ![r] = [@ EXCEPT !.pc = "authed", !.handler = h,
                                           !.model = m, !.seen = route]]
  /\ UNCHANGED <<quotaVars, tokVars, otherVars>>

\* the handler up to its first await: the quota check and its commit
RaceCheck(r, saveOk) ==
  /\ reqs[r].pc = "authed"
  /\ LET m == reqs[r].model
         rt == getRoutingRouteById(route, reqs[r].seen)
         res == IF reqs[r].handler = "openai"
                  THEN consumeRoutingModelQuota(rt, m, now)
                  ELSE claudeConsumeRoutingModelQuota(rt, m, now)
     IN  /\ RecordCheck(m, res, saveOk)
         /\ reqs' = [reqs EXCEPT ![r] =
                       [@ EXCEPT !.pc = IF res.res.allowed THEN "upstream" ELSE "done",
                                 !.pre = normalizeUsageEntry(route.modelUsage[m]).totalUsed,
                                 !.post = normalizeUsageEntry(res.route.modelUsage[m]).totalUsed,
                                 !.allowed = res.res.allowed]]
  /\ UNCHANGED <<now, usageInit, tokVars, otherVars>>

\* the upstream call of an admitted request settles
RaceSettle(r) ==
  /\ reqs[r].pc = "upstream"
  /\ reqs' = [reqs EXCEPT ![r] = [@ EXCEPT !.pc = "done"]]
  /\ UNCHANGED <<quotaVars, tokVars, otherVars>>

\* midnight passes while requests are in flight
RaceTick ==
  /\ now = StartInstant
  /\ now' = 2 * TicksPerDay
  /\ UNCHANGED <<route, disk, lastCheck, checks, admits, usageInit, peAt, reqs,
                 tokVars, otherVars>>

NextRace ==
  \/ \E r \in Racers, m \in {"m1", "m2"} : Authenticate(r, HandlerOf[r], m)
  \/ \E r \in Racers, saveOk \in BOOLEAN : RaceCheck(r, saveOk)
  \/ \E r \in Racers : RaceSettle(r)
  \/ RaceTick

SpecRace == InitRace /\ [][NextRace]_vars

TotalUsedOf(u) == normalizeUsageEntry(u).totalUsed

\* C32: requests interleave only at the awaits and the quota check has none
\* between reading the usage entry and writing it back, so in every
\* interleaving each admitted request on a metered (route, model) adds exactly
\* 1 to totalUsed (the ledger is the initial count plus the admissions, no
\* update is lost) and the admissions never exceed the configured total.
C32_NoLostUpdate ==
  \A m \in {"m1", "m2"} :
    LET lim == normalizeLimitEntry(route.modelLimits[m])
    IN  /\ TotalUsedOf(route.modelUsage[m]) = TotalUsedOf(usageInit[m]) + admits[m]
        /\ lim.total # Null => admits[m] <= lim.total
        /\ \A r \in Racers :
             (reqs[r].pc \in {"upstream", "done"} /\ reqs[r].model = m /\ reqs[r].allowed)
               => reqs[r].post = reqs[r].pre + 1

\* two requests for m1 passed the middleware before either was checked, both
\* were admitted one after the other while the first was still upstream, and a
\* third was refused at the total
C32_Witness ==
  /\ reqs["p"].pc = "upstream" /\ reqs["q"].pc = "upstream" /\ reqs["s"].pc = "done"
  /\ \A r \in Racers : reqs[r].model = "m1"
  /\ reqs["p"].allowed /\ reqs["q"].allowed /\ ~reqs["s"].allowed
  /\ reqs["q"].seen.modelUsage["m1"] = AbsentUsage
  /\ reqs["q"].pre = 1 /\ reqs["q"].post = 2
  /\ admits["m1"] = 2

\* ---------------------------------------------------------------------------
\* The Claude stream under every order of upstream events
\* ---------------------------------------------------------------------------

\* the blocks started before position k whose stop has not been written by then
OpenAt(k) ==
  {i \in Starts : i < k /\ ~\E s \in At("content_block_stop") :
                             i < s /\ s < k /\ out[s].index = out[i].index}

\* C33: in every order of upstream reasoning, text and tool-call events, no
\* content_block_start is written while a block started earlier has not
\* received its content_block_stop: at most one block is open at any time.
C33_AtMostOneOpen ==
  \A k \in DOMAIN out : Cardinality(OpenAt(k)) <= 1

\* the block type a delta type belongs to
blockOf(deltaKind) ==
  CASE deltaKind = "thinking_delta" -> "thinking"
    [] deltaKind = "text_delta" -> "text"
    [] deltaKind = "input_json_delta" -> "tool_use"
    [] OTHER -> "none"

\* C34: in every order of upstream events, each content_block_delta is written
\* while a block with the delta's index is open, and that block has the
\* delta's type (thinking_delta in a thinking block, text_delta in a text
\* block).
C34_DeltaInsideItsBlock ==
  \A k \in At("content_block_delta") :
    /\ \E i \in OpenAt(k) : out[i].index = out[k].index
    /\ \A i \in OpenAt(k) :
         out[i].index = out[k].index => out[i].kind = blockOf(out[k].kind)

\* ---------------------------------------------------------------------------
\* Termination of streaming responses
\* ---------------------------------------------------------------------------

\* every upstream call settles (the HTTP client has a timeout), so a handler
\* that is waiting for its upstream call is eventually resumed
SpecRelayLive ==
  SpecRelay /\ WF_vars(UpstreamOk \/ \E code \in {429, 500} : UpstreamFails(code))

\* C35: every streaming chat request that reached its upstream call has its
\* client response ended eventually, also when the upstream call fails after
\* the stream has started, in the OpenAI handler as in the Claude handler.
C35_StreamEventuallyEnded ==
  (relay.stream /\ relay.pc # "idle") ~> relay.ended

\* ---------------------------------------------------------------------------
\* reload() during a refresh
\* ---------------------------------------------------------------------------

\* list l holds the account of call c with the tokens the call's object carries
HoldsTokensOf(l, c) ==
  \E i \in DOMAIN l :
    /\ l[i].id = held(c).id
    /\ l[i].access_token = held(c).access_token
    /\ l[i].refresh_token = held(c).refresh_token

\* C36: when reload() ran while the refresh of an account was waiting for the
\* token endpoint, then at the moment that refresh completes successfully the
\* list in memory and the accounts file both hold the account with its new
\* access and refresh tokens.
C36_ReloadKeepsNewTokens ==
  [][\A c \in CallIds :
       (calls[c].pc = "saving" /\ calls[c].reloaded
          /\ calls'[c].pc = "done" /\ calls'[c].refreshed) =>
         (HoldsTokensOf(accounts', c) /\ HoldsTokensOf(file', c))]_vars

\* ---------------------------------------------------------------------------
\* Alias targets and the route's model list (admin routes, part_002)
\* ---------------------------------------------------------------------------

\* normalizeAliases: the entries whose trimmed name and target are not empty
normalizeAliases(aliases) ==
  [k \in {a \in DOMAIN aliases : a # "" /\ aliases[a] # ""} |-> aliases[k]]

\* normalizeModelLimits: only the limits of the route's own models are kept
normalizeModelLimits(modelLimits, models) ==
  [m \in DOMAIN modelLimits |-> IF m \in models THEN modelLimits[m] ELSE AbsentLimit]

\* the route record is one the create and update endpoints write
AdminStored(rt) ==
  /\ rt.aliases = normalizeAliases(rt.aliases)
  /\ rt.modelLimits = normalizeModelLimits(rt.modelLimits, rt.models)

\* C37: on a non-master route whose record the admin layer stored, the model
\* a request is checked, debited and dispatched under is a member of the
\* route's models, whatever the alias map is.
C37_DispatchedInRouteModels ==
  AdminStored(route) =>
    \A r \in ReqIds :
      (RouteRequest(r) /\ reqs[r].checked # "none") =>
        /\ reqs[r].checked \in route.models
        /\ reqs[r].sent \in route.models \cup {"none"}

\* ---------------------------------------------------------------------------
\* Priority among the providers that support a model
\* ---------------------------------------------------------------------------

\* routing.modelProviderMapping of the configuration has an entry whose key is
\* the model or a prefix pattern of it
CustomEntryFor(model) ==
  \E i \in DOMAIN pm.config :
    \/ pm.config[i].pattern = model
    \/ /\ endsWithStar(pm.config[i].pattern)
       /\ startsWith(model, slice(pm.config[i].pattern))

\* C38: when the configuration has no mapping entry for the model and two or
\* more enabled, initialized providers support it, selectProvider returns a
\* supporting provider of least priority number, in whatever order the
\* providers were registered.
C38_LeastPriorityAmongSupporting ==
  [][ (ChatStep /\ pm'.chat.model # << >> /\ ~CustomEntryFor(pm'.chat.model)
         /\ Cardinality(Supporting(pm'.chat.model)) >= 2) =>
        pm'.chat.provider \in LeastPriority(Supporting(pm'.chat.model)) ]_vars

\* ---------------------------------------------------------------------------
\* The round-robin index under concurrent getToken calls
\* ---------------------------------------------------------------------------

\* call c makes a selection in this step
Selects(c) ==
  \/ calls'[c].attempts = calls[c].attempts + 1
  \/ /\ calls[c].pc # "done" /\ calls'[c].pc = "done" /\ ~calls'[c].refreshed
     /\ calls'[c].result \notin {"null", "error", "none"}

\* C39: a selection reads this.currentIndex and increments it in the same
\* step, so each selection, the first of a call and every re-selection after
\* a failed refresh alike, leaves the index exactly 1 higher than the value it
\* read, no call in flight has read that value, and no other step changes the
\* index.
C39_IndexReadAndAdvanced ==
  [][ /\ \A c \in CallIds :
           Selects(c) =>
             /\ calls'[c].pc # "done" => calls'[c].selIndex = currentIndex
             /\ currentIndex' = currentIndex + 1
             /\ \A d \in InFlight : calls[d].selIndex < currentIndex
      /\ (\A c \in CallIds : ~Selects(c)) => currentIndex' = currentIndex ]_vars

\* two calls are in flight at the same time, one of them has re-selected after
\* a failed refresh, and the three selections read three different values
C39_Witness ==
  \E c, d \in CallIds :
    /\ c # d
    /\ calls[c].pc = "refreshing" /\ calls[d].pc = "refreshing"
    /\ calls[c].attempts = 1 /\ calls[d].attempts = 2
    /\ calls[c].selIndex # calls[d].selIndex
    /\ currentIndex = 3

\* ---------------------------------------------------------------------------
\* Requests that are not admitted against a limit
\* ---------------------------------------------------------------------------

\* limits of m1 under which a first check can be rejected in each of the three
\* ways, admitted, or find nothing to check
FrameLimits ==
  {AbsentLimit, ObjLimit(0, "none", Null, Null), ObjLimit(2, "none", Null, 7 * TicksPerDay),
   ObjLimit(Null, "daily", 0, Null), ObjLimit(1, "daily", 1, Null)}

FrameUsages == {AbsentUsage, ObjUsage(1, 1, 1 * TicksPerDay)}

InitFrame ==
  /\ now = StartInstant
  /\ \E lim \in FrameLimits, us \in FrameUsages :
       /\ route = [models |-> {"m1", "gpt-5"},
                   aliases |-> [a \in {"fast"} |-> "m1"],
                   modelLimits |-> [m \in Names |->
                                      IF m = "m1" THEN lim
                                      ELSE IF m = "gpt-5" THEN ObjLimit(2, "none", Null, Null)
                                      ELSE AbsentLimit],
                   modelUsage |-> [m \in Names |-> IF m = "m1" THEN us ELSE AbsentUsage]]
       /\ usageInit = [m \in Names |-> IF m = "m1" THEN us ELSE AbsentUsage]
  /\ disk = route.modelUsage
  /\ lastCheck = NoCheck
  /\ checks = [m \in Names |-> 0]
  /\ admits = [m \in Names |-> 0]
  /\ peAt = [m \in Names |-> Null]
  /\ reqs = [r \in ReqIds |-> NewReq]
  /\ TokIdle
  /\ StreamIdle
  /\ ProvIdle
  /\ MoreIdle

\* a week passes: the expiring limit is over and a new day has begun
FrameTick == Tick(8 * TicksPerDay)

NextFrame ==
  \/ NextHandler
  \/ FrameTick

SpecFrame == InitFrame /\ [][NextFrame]_vars

\* request r, as it stands after the step, was not admitted against a limit:
\* it came with the master key, was refused with 400, was rejected by the
\* quota check, or was checked for a model that has no limit configured
NotDebited(r) ==
  \/ reqs'[r].master
  \/ reqs'[r].status = 400
  \/ reqs'[r].quota = "rejected"
  \/ /\ reqs'[r].quota = "allowed"
     /\ normalizeLimitEntry(route.modelLimits[reqs'[r].checked]) = NoLimit

\* C40: the step in which a handler receives a request that is not admitted
\* against a limit leaves the route's modelUsage and the saved ledger as they
\* were and calls no save; a request with the master key leaves them alone in
\* all of its steps.
C40_NotAdmittedNoWrite ==
  [][ \A r \in ReqIds :
        /\ (reqs[r].pc = "new" /\ reqs'[r].pc # "new" /\ NotDebited(r)) =>
             /\ route'.modelUsage = route.modelUsage
             /\ disk' = disk
             /\ lastCheck' # lastCheck => ~lastCheck'.saved
        /\ (reqs'[r].master /\ reqs'[r] # reqs[r]) =>
             (route' = route /\ disk' = disk /\ lastCheck' = lastCheck) ]_vars

\* a request was rejected in a new period, with the stored entry still
\* carrying the previous period's count
C40_Witness ==
  \E r \in ReqIds :
    /\ reqs[r].quota = "rejected" /\ reqs[r].status = 429
    /\ lastCheck.res.reason = "period_exceeded"
    /\ lastCheck.t = 8 * TicksPerDay
    /\ route.modelUsage["m1"] = ObjUsage(1, 1, 1 * TicksPerDay)
    /\ ~lastCheck.saved

====
